---- MODULE Spec2Model ----
(***************************************************************************)
(* ObjectSocket (transport) and EnrollmentClient (workflow client) of      *)
(* object-socket.enrollment.bundle.js, as a state machine.                 *)
(*                                                                         *)
(* One ObjectSocket instance is modelled.  The JavaScript run-to-completion*)
(* rule makes every callback (socket event, timer, API call) one atomic    *)
(* action.  The WebSocket objects the transport creates are the            *)
(* environment: each one moves CONNECTING -> OPEN -> CLOSING -> CLOSED and *)
(* delivers its open / message / error / close events in any interleaving. *)
(***************************************************************************)
EXTENDS Integers, Sequences, FiniteSets, TLC

\* ---------------------------------------------------------------- bounds
\* WebSocket objects the transport may create over its lifetime
MaxSockets == 2
\* request() calls that may be issued
MaxRequests == 2
\* workflow-client waits (_sendAndWait and waitFor calls) that may be issued
MaxWaits == 2
\* the smaller number of waits of the specifications that explore more
\* than the calls and the frames that settle them
FewWaits == 1
\* the smaller number of request() calls of the specification that
\* explores the connection's life cycle (Spec)
FewRequests == 1

\* setInterval calls startStatusPolling may make
MaxPolls == 2

\* handler functions a user may subscribe with onType
MaxHandlers == 2
\* handler promises that may be waiting to reject at one time
MaxRejections == 1
\* the largest attempt index defaultBackoff is applied to: the cap of 30000
\* is reached from attempt 6 on (500 * 2^6 = 32000)
MaxAttempt == 8
\* Math.random() is one of the fractions 0/RandomGrain .. (RandomGrain-1)/RandomGrain
RandomGrain == 1000

\* maxReconnects: Infinity (the default) is a value no counter of the model
\* reaches, so that  attempts >= Infinity  is always false, as in JavaScript
Infinity == 999

SockIds == 1..MaxSockets
ReqIds == 1..MaxRequests
WaitIds == 1..MaxWaits

\* the options a transport is constructed with
Options ==
    LET
        \* the values of options.heartbeat.intervalMs that are explored
        IntervalValues == {0, 25000}
        \* the values of options.maxReconnects that are explored
        MaxReconnectsValues == {0, 1, Infinity}
    IN
    [autoReconnect : BOOLEAN, maxReconnects : MaxReconnectsValues,
     intervalMs : IntervalValues, tolerantDecode : {TRUE}]

VARIABLES
    readyState,         \* socket -> "NONE" | "BUILDING" | "CONNECTING" | "OPEN" | "CLOSING" | "CLOSED" | "THREW"
    connectPromise,     \* socket -> the future of that connect(): "none" | "pending" | "resolved" | "rejected"
    ws,                 \* this._ws: 0 (null) or a socket
    connected,          \* this._connected
    reconnectAttempts,  \* this._reconnectAttempts
    autoReconnect,      \* this._opts.autoReconnect
    maxReconnects,      \* this._opts.maxReconnects
    intervalMs,         \* this._opts.heartbeat.intervalMs
    heartbeatTimer,     \* this._heartbeatTimer: 0 (null) or an interval handle
    intervals,          \* the setInterval handles that are still armed
    reconnectTimers,    \* number of armed backoff setTimeout callbacks
    idCounter,          \* this._idCounter
    pending,            \* keys of this._pending
    reqTimers,          \* request ids whose timeout timer is still armed
    reqState,           \* request id -> state of the future request() returned
    settles,            \* request id -> number of resolve/reject invocations
    cleanups,           \* request id -> number of times the entry was cleaned up
    handlers,           \* this._handlers as a set of <<type, wait>> subscriptions
    waitOp,             \* wait -> the workflow operation that started it
    waitState,          \* wait -> state of the future _sendAndWait returned
    waitTimers,         \* waits whose timeout timer is still armed
    waitValue,          \* wait -> <<>> or <<v>>, v the value its future resolved with
    waitPredicate,      \* wait -> the predicate a waitFor call was given, "none" for other waits
    statusTimer,        \* this._statusTimer: 0 (null) or an interval handle
    pollTimers,         \* the handles of startStatusPolling's setInterval that are still armed
    pollCount,          \* number of setInterval calls startStatusPolling has made
    post,               \* the handler of POST /api/addresses: where it is, its request, the row of the address, what it has done
    tolerantDecode,     \* this._opts.tolerantDecode
    reqValue,           \* request id -> what its future was settled with
    rejections,         \* handler promises that will reject: the envelopes they were called with
    calc,               \* the call of a pure function under examination: its name, arguments and result
    closeCalled,        \* history: close() has been called
    last                \* history: what the last callback did

vars == <<readyState, connectPromise, ws, connected, reconnectAttempts,
          autoReconnect, maxReconnects, intervalMs, heartbeatTimer, intervals,
          reconnectTimers, idCounter, pending, reqTimers, reqState,
          settles, cleanups, handlers, waitOp, waitState, waitTimers,
          waitValue, waitPredicate, statusTimer, pollTimers, pollCount,
          post, tolerantDecode, reqValue, rejections, calc, closeCalled,
          last>>

sockVars == <<readyState, connectPromise, ws>>
connVars == <<connected, reconnectAttempts, reconnectTimers>>
optVars == <<maxReconnects, intervalMs>>
hbVars == <<heartbeatTimer, intervals>>
reqVars == <<idCounter, pending, reqTimers, reqState, settles, cleanups>>
waitVars == <<handlers, waitOp, waitState, waitTimers>>
msgVars == <<tolerantDecode, reqValue, rejections>>
flowVars == <<waitValue, waitPredicate>>
pollVars == <<statusTimer, pollTimers, pollCount>>
moreVars == <<msgVars, calc, flowVars, pollVars, post>>

\* ------------------------------------------------------ what a step did
\* op: the callback that ran; arg: its socket / request / wait (for close:
\* 1 when the call directly follows another close(), else 0);
\* threw: it raised; out: the frames it wrote; emitted: lifecycle events.
\* The message callback adds  raw: the frame it handled,  called: the
\* handlers it called, in order,  how: what each of them did; the catch
\* callback of a handler's promise adds  to: the envelope it answers
Did(op, arg, threw, out, emitted) ==
    [op |-> op, arg |-> arg, threw |-> threw, out |-> out, emitted |-> emitted]

Frame(sock, type, id) == [sock |-> sock, type |-> type, id |-> id]

\* this._ws && this._ws.readyState === this._ws.OPEN
IsOpen == ws # 0 /\ readyState[ws] = "OPEN"

\* mutant of CanSend: only the presence of a socket is checked
CanSend_AnySocket == ws # 0

\* send, line 126: the call goes on when this holds and throws otherwise
CanSend == IsOpen

\* mutant of CanPing: the ping is written whenever there is a socket
CanPing_AnySocket == ws # 0

\* the heartbeat callback, line 209: a ping is written when this holds
CanPing == IsOpen

\* no pure function is being applied
NoCall == [fn |-> "none", arg |-> <<>>, out |-> <<>>]

\* an inbound frame as the message callback sees it.  kind: "malformed"
\* (decode throws on it), "untyped" (it decodes to a value without a string
\* type) or "envelope"; the other fields are those of the envelope
RawFrame(kind, type, id, replyTo, payload, error) ==
    [kind |-> kind, type |-> type, id |-> id, replyTo |-> replyTo,
     payload |-> payload, error |-> error]

\* the value of an envelope field that is not there
Absent == 0 - 1
\* the empty string as the value of id / replyTo; a non-empty id is a
\* positive number (for a replyTo: the request it names)
Empty == 0

\* the constructor, lines 62-88, called with the options o
InitWith(options) ==
    LET
        \* no request has been received by the server
        NoPost(row) ==
            [pc |-> "idle", body |-> [address |-> "", asset |-> "", partyGUID |-> ""],
             row |-> row, attempt |-> 0, dbCalls |-> 0, errors |-> <<>>,
             delays |-> <<>>, responses |-> <<>>]
    IN
    /\ readyState = [s \in SockIds |-> "NONE"]
    /\ connectPromise = [s \in SockIds |-> "none"]
    /\ ws = 0
    /\ connected = FALSE
    /\ reconnectAttempts = 0
    /\ \E o \in options :
          /\ autoReconnect = o.autoReconnect
          /\ maxReconnects = o.maxReconnects
          /\ intervalMs = o.intervalMs
          /\ tolerantDecode = o.tolerantDecode
    /\ heartbeatTimer = 0
    /\ intervals = {}
    /\ reconnectTimers = 0
    /\ idCounter = 0
    /\ pending = {}
    /\ reqTimers = {}
    /\ reqState = [i \in ReqIds |-> "none"]
    /\ settles = [i \in ReqIds |-> 0]
    /\ cleanups = [i \in ReqIds |-> 0]
    /\ handlers = {}
    /\ waitOp = [w \in WaitIds |-> "none"]
    /\ waitState = [w \in WaitIds |-> "none"]
    /\ waitTimers = {}
    /\ waitValue = [w \in WaitIds |-> <<>>]
    /\ waitPredicate = [w \in WaitIds |-> "none"]
    /\ statusTimer = 0
    /\ pollTimers = {}
    /\ pollCount = 0
    /\ post = NoPost(<<>>)
    /\ reqValue = [i \in ReqIds |-> <<>>]
    /\ rejections = {}
    /\ closeCalled = FALSE
    /\ last = Did("init", 0, FALSE, <<>>, <<>>)

\* any ObjectSocket that decodes tolerantly (the default, line 77); no
\* pure function is under examination
Init == InitWith(Options) /\ calc = NoCall

\* an ObjectSocket with the default reconnect bound and heartbeat,
\* lines 71-74
InitDefault ==
    /\ InitWith({o \in Options : o.maxReconnects = Infinity /\ o.intervalMs = 25000})
    /\ calc = NoCall

\* the ObjectSocket an EnrollmentClient makes, lines 382-392
InitClient ==
    /\ InitWith({o \in Options : o.maxReconnects = Infinity /\ o.intervalMs = 0})
    /\ calc = NoCall

\* ------------------------------------------------------------ helpers
\* the sockets whose handlers can still be called by the environment
Live(s) == readyState[s] \in {"CONNECTING", "OPEN", "CLOSING"}

\* the sockets that can deliver a message: they have opened and have not
\* closed yet
Receiving(s) ==
    /\ readyState[s] \in {"OPEN", "CLOSING"}
    /\ connectPromise[s] = "resolved"

\* mutant of ReconnectExhausted: the bound is compared with > for >=
ReconnectExhausted_OffByOne(attempts, max) == attempts > max

\* _scheduleReconnect, line 195: the bound check
ReconnectExhausted(attempts, max) == attempts >= max

\* _clearHeartbeat: clearInterval(this._heartbeatTimer)
ClearedIntervals(timer, armed) == armed \ {timer}

\* mutant of FailAllTimers: the timers of the failed requests stay armed
FailAllTimers_NoClear(timers, ids) == timers

\* _failAllPending: clearTimeout(p.timeout) for every entry
FailAllTimers(timers, ids) == timers \ ids

\* mutant of Settle: resolve/reject leave the future pending
Settle_Stay(state, how) == state

\* the state of a future after resolve/reject is invoked on it: the first
\* settlement wins, later invocations are ignored by the promise
Settle(state, how) == IF state = "pending" THEN how ELSE state

\* WebSocket.close(): CONNECTING and OPEN sockets start the closing
\* handshake; on a CLOSING or CLOSED socket the call does nothing
WsClose(rs, s) ==
    IF s # 0 /\ rs[s] \in {"CONNECTING", "OPEN"}
    THEN [rs EXCEPT ![s] = "CLOSING"]
    ELSE rs

\* ------------------------------------------------------------ connect
\* ObjectSocket.prototype.connect, up to the call of _buildUrlWithToken():
\* the socket is created later, in the then-callback (CreateSocket)
ConnectCall(s) ==
    /\ readyState[s] = "NONE"
    /\ \A r \in SockIds : r < s => readyState[r] # "NONE"
    /\ readyState' = [readyState EXCEPT ![s] = "BUILDING"]
    /\ connectPromise' = [connectPromise EXCEPT ![s] = "pending"]

\* the caller calls connect()
Connect ==
    \E s \in SockIds :
        /\ ConnectCall(s)
        /\ last' = Did("connect", s, FALSE, <<>>, <<>>)
        /\ UNCHANGED <<ws, connVars, autoReconnect, optVars, hbVars, reqVars,
                       waitVars, closeCalled, moreVars>>

\* the then-callback of connect(): new WebSocket(url) / wsImpl(url), which
\* either returns a socket in CONNECTING state or throws (reject(err));
\* a rejected token or URL ends the same way, with no socket.  The
\* then-callbacks run in the order of the connect() calls
CreateSocket ==
    \E s \in SockIds, throws \in BOOLEAN :
        /\ readyState[s] = "BUILDING"
        /\ \A r \in SockIds : r < s => readyState[r] # "BUILDING"
        /\ IF throws
           THEN /\ readyState' = [readyState EXCEPT ![s] = "THREW"]
                /\ connectPromise' = [connectPromise EXCEPT ![s] = "rejected"]
                /\ ws' = ws
           ELSE /\ readyState' = [readyState EXCEPT ![s] = "CONNECTING"]
                /\ connectPromise' = connectPromise
                /\ ws' = s
        /\ last' = Did("createSocket", s, throws, <<>>, <<>>)
        /\ UNCHANGED <<connVars, autoReconnect, optVars, hbVars,
                       reqVars, waitVars, closeCalled, moreVars>>

\* ws.onopen
OnOpen ==
    \E s \in SockIds :
        /\ readyState[s] = "CONNECTING"
        /\ readyState' = [readyState EXCEPT ![s] = "OPEN"]
        /\ connected' = TRUE
        /\ reconnectAttempts' = 0
        \* _startHeartbeat: the new handle overwrites this._heartbeatTimer
        /\ IF intervalMs = 0
           THEN UNCHANGED hbVars
           ELSE /\ heartbeatTimer' = s
                /\ intervals' = intervals \cup {s}
        /\ connectPromise' = [connectPromise EXCEPT ![s] = Settle(@, "resolved")]
        /\ last' = Did("onopen", s, FALSE, <<>>, <<"connected">>)
        /\ UNCHANGED <<ws, reconnectTimers, autoReconnect, optVars,
                       reqVars, waitVars, closeCalled, moreVars>>

\* ws.onerror
OnError ==
    \E s \in SockIds :
        /\ Live(s)
        /\ last' = Did("onerror", 0, FALSE, <<>>, <<"error">>)
        /\ UNCHANGED <<sockVars, connVars, autoReconnect, optVars, hbVars,
                       reqVars, waitVars, closeCalled, moreVars>>

\* ws.onclose, with _clearHeartbeat, _failAllPending and _scheduleReconnect
OnClose ==
    LET
        \* _failAllPending: self._pending.delete(id) for every entry
        FailAllPendingTable(table, ids) == table \ ids
    IN
    \E s \in SockIds :
        /\ Live(s)
        /\ LET wasConnected == connected
               failed == IF wasConnected THEN pending ELSE {}
               sched == autoReconnect
                        /\ ~ReconnectExhausted(reconnectAttempts, maxReconnects)
           IN  /\ readyState' = [readyState EXCEPT ![s] = "CLOSED"]
               /\ connected' = FALSE
               /\ intervals' = ClearedIntervals(heartbeatTimer, intervals)
               /\ heartbeatTimer' = 0
               /\ reqTimers' = FailAllTimers(reqTimers, failed)
               /\ pending' = FailAllPendingTable(pending, failed)
               /\ reqState' = [i \in ReqIds |->
                     IF i \in failed THEN Settle(reqState[i], "closed")
                                     ELSE reqState[i]]
               /\ settles' = [i \in ReqIds |->
                     IF i \in failed THEN settles[i] + 1 ELSE settles[i]]
               /\ cleanups' = [i \in ReqIds |->
                     IF i \in failed THEN cleanups[i] + 1 ELSE cleanups[i]]
               /\ reconnectAttempts' =
                     IF sched THEN reconnectAttempts + 1 ELSE reconnectAttempts
               /\ reconnectTimers' =
                     IF sched THEN reconnectTimers + 1 ELSE reconnectTimers
               /\ last' = Did("onclose", s, FALSE, <<>>,
                     <<"disconnected">> \o
                     (IF sched THEN <<"reconnecting">> ELSE <<>>))
        /\ UNCHANGED <<connectPromise, ws, autoReconnect, optVars, idCounter,
                       waitVars, closeCalled, moreVars>>

\* the backoff timer of _scheduleReconnect fires: self.connect()
ReconnectTimer ==
    \E s \in SockIds :
        /\ reconnectTimers > 0
        /\ ConnectCall(s)
        /\ reconnectTimers' = reconnectTimers - 1
        /\ last' = Did("reconnectTimer", s, FALSE, <<>>, <<>>)
        /\ UNCHANGED <<ws, connected, reconnectAttempts, autoReconnect, optVars,
                       hbVars, reqVars, waitVars, closeCalled, moreVars>>

\* ------------------------------------------------------------ close
\* mutant of CloseResult: close() refuses, like send(), when no socket is
\* open
CloseResult_OpenOnly(st) ==
    IF st.ws # 0 /\ st.readyState[st.ws] = "OPEN"
    THEN [autoReconnect |-> FALSE,
          readyState |-> WsClose(st.readyState, st.ws),
          ws |-> st.ws,
          heartbeatTimer |-> 0,
          intervals |-> ClearedIntervals(st.heartbeatTimer, st.intervals),
          threw |-> FALSE]
    ELSE [st EXCEPT !.autoReconnect = FALSE, !.threw = TRUE]

\* ObjectSocket.prototype.close as a function of the fields it touches
CloseResult(st) ==
    [autoReconnect |-> FALSE,
     readyState |-> WsClose(st.readyState, st.ws),
     ws |-> st.ws,
     heartbeatTimer |-> 0,
     intervals |-> ClearedIntervals(st.heartbeatTimer, st.intervals),
     threw |-> FALSE]

Close ==
    LET CloseView ==
            [autoReconnect |-> autoReconnect, readyState |-> readyState, ws |-> ws,
             heartbeatTimer |-> heartbeatTimer, intervals |-> intervals,
             threw |-> FALSE]
        r == CloseResult(CloseView)
    IN  /\ autoReconnect' = r.autoReconnect
        /\ readyState' = r.readyState
        /\ heartbeatTimer' = r.heartbeatTimer
        /\ intervals' = r.intervals
        /\ closeCalled' = TRUE
        /\ last' = Did("close", IF last.op = "close" THEN 1 ELSE 0, r.threw,
                        <<>>, <<>>)
        /\ UNCHANGED <<connectPromise, ws, connVars, optVars, reqVars, waitVars,
                       moreVars>>

\* ------------------------------------------------------- send, request
\* ObjectSocket.prototype.send
Send ==
    /\ IF CanSend
       THEN last' = Did("send", 0, FALSE, <<Frame(ws, "SEND", 0)>>, <<>>)
       ELSE last' = Did("send", 0, TRUE, <<>>, <<>>)
    /\ UNCHANGED <<sockVars, connVars, autoReconnect, optVars, hbVars, reqVars,
                   waitVars, closeCalled, moreVars>>

\* ObjectSocket.prototype.request
Request ==
    LET
        \* request, line 132: the call goes on when this holds and throws otherwise
        CanRequest == IsOpen
    IN
    IF CanRequest
    THEN LET id == idCounter + 1
         IN  /\ id \in ReqIds
             /\ idCounter' = id
             /\ pending' = pending \cup {id}
             /\ reqTimers' = reqTimers \cup {id}
             /\ reqState' = [reqState EXCEPT ![id] = "pending"]
             /\ last' = Did("request", id, FALSE, <<Frame(ws, "REQ", id)>>, <<>>)
             /\ UNCHANGED <<sockVars, connVars, autoReconnect, optVars, hbVars,
                            settles, cleanups, waitVars, closeCalled, moreVars>>
    ELSE /\ last' = Did("request", 0, TRUE, <<>>, <<>>)
         /\ UNCHANGED <<sockVars, connVars, autoReconnect, optVars, hbVars,
                        reqVars, waitVars, closeCalled, moreVars>>

\* mutant of SpentTimer: every timer of the kind is dropped
SpentTimer_All(timers, t) == {}

\* a setTimeout callback runs (lines 139 and 478): its timer is spent
SpentTimer(timers, t) == timers \ {t}

\* mutant of RequestTimeoutTable: the timed-out entry stays in the table
RequestTimeoutTable_NoDelete(table, id) == table

\* request's setTimeout callback, lines 139-142; the timer is spent by firing
RequestTimeoutTable(table, id) == table \ {id}

RequestTimeout ==
    \E id \in reqTimers :
        /\ reqTimers' = SpentTimer(reqTimers, id)
        /\ pending' = RequestTimeoutTable(pending, id)
        /\ reqState' = [reqState EXCEPT ![id] = Settle(@, "timeout")]
        /\ settles' = [settles EXCEPT ![id] = @ + 1]
        /\ cleanups' = [cleanups EXCEPT ![id] = @ + 1]
        /\ last' = Did("requestTimeout", id, FALSE, <<>>, <<>>)
        /\ UNCHANGED <<sockVars, connVars, autoReconnect, optVars, hbVars,
                       idCounter, waitVars, closeCalled, moreVars>>

\* the setInterval callback of _startHeartbeat
HeartbeatTick ==
    \E t \in intervals :
        /\ IF CanPing
           THEN last' = Did("heartbeat", 0, FALSE, <<Frame(ws, "PING", 0)>>, <<>>)
           ELSE last' = Did("heartbeat", 0, FALSE, <<>>, <<>>)
        /\ UNCHANGED <<sockVars, connVars, autoReconnect, optVars, hbVars,
                       reqVars, waitVars, closeCalled, moreVars>>

\* ------------------------------------------------------ inbound frames
\* _handleMessage, lines 243-258: an envelope with replyTo
ReplyTable(table, id) == table \ {id}

OnReply ==
    \E s \in SockIds, id \in ReqIds, error \in BOOLEAN :
        /\ Receiving(s)
        /\ id <= idCounter
        /\ IF id \in pending
           THEN /\ reqTimers' = reqTimers \ {id}
                /\ pending' = ReplyTable(pending, id)
                /\ reqState' = [reqState EXCEPT ![id] =
                      Settle(@, IF error THEN "rejected" ELSE "resolved")]
                /\ settles' = [settles EXCEPT ![id] = @ + 1]
                /\ cleanups' = [cleanups EXCEPT ![id] = @ + 1]
           ELSE UNCHANGED <<reqTimers, pending, reqState, settles, cleanups>>
        /\ last' = Did("onreply", id, FALSE, <<>>, <<>>)
        /\ UNCHANGED <<sockVars, connVars, autoReconnect, optVars, hbVars,
                       idCounter, waitVars, closeCalled, moreVars>>

\* ------------------------------------------- the message callback in full
\* the handler functions a user subscribes with onType
HandlerIds == 1..MaxHandlers
\* the event types they are subscribed to
EventTypes == {"JOB", "NOTE"}

\* if (env.id) / if (env.replyTo): undefined and "" are falsy
Truthy(v) == v \notin {Absent, Empty}

\* frames that are not envelopes
BadFrames ==
    {RawFrame("malformed", "", Absent, Absent, "undefined", "undefined"),
     RawFrame("untyped", "", Absent, Absent, "undefined", "undefined")}

\* event envelopes: of either type without an id and with a non-empty id,
\* and with the id "" or with a replyTo of ""
EventFrames ==
    {RawFrame("envelope", t, id, Absent, "P1", "undefined") :
        t \in EventTypes, id \in {Absent, 1}}
    \cup {RawFrame("envelope", "JOB", Empty, Absent, "P1", "undefined"),
          RawFrame("envelope", "JOB", 1, Empty, "P1", "undefined")}

\* reply envelopes: with and without an id of their own, naming any request,
\* carrying a payload, an error, or both
ReplyFrames ==
    {RawFrame("envelope", "JOB", id, r, c[1], c[2]) :
        id \in {Absent, 1}, r \in ReqIds,
        c \in {<<"P1", "undefined">>, <<"P2", "undefined">>,
               <<"P1", "E1">>, <<"undefined", "E2">>}}

\* mutant of DecodeFailure: the exception is thrown again in both modes
DecodeFailure_Rethrows(tolerant) == [threw |-> TRUE, emitted |-> <<>>]

\* the catch block of lines 237-240
DecodeFailure(tolerant) ==
    IF tolerant THEN [threw |-> FALSE, emitted |-> <<"error">>]
                ELSE [threw |-> TRUE, emitted |-> <<>>]

\* mutant of IsReply: an envelope is a reply when a request waits for it
IsReply_OnlyIfPending(env) == Truthy(env.replyTo) /\ env.replyTo \in pending

\* line 243: if (env.replyTo)
IsReply(env) == Truthy(env.replyTo)

\* mutant of ReplyOutcome: the error of the reply is ignored
ReplyOutcome_PayloadOnly(env) == <<"resolved", env.payload>>

\* lines 248-255: what the future of the matching request is settled with
ReplyOutcome(env) ==
    LET
        \* the error object of a reply envelope
        ErrorOf(e) ==
            [message |-> e \o ".message", code |-> e \o ".code",
             details |-> e \o ".details"]
    IN
    IF env.error # "undefined"
    THEN <<"rejected", ErrorOf(env.error).message, ErrorOf(env.error).code,
           ErrorOf(env.error).details>>
    ELSE <<"resolved", env.payload>>

\* the envelope _sendReply writes
ReplyFrame(sock, to, payload, error) ==
    [sock |-> sock, type |-> to.type \o ":REPLY", replyTo |-> to.id,
     payload |-> payload, error |-> error]

\* _sendReply, line 281: the reply is written when this holds
CanReply == IsOpen

\* mutant of SendReply: the id of the envelope replied to is not looked at
SendReply_NoIdCheck(to, payload, error) ==
    IF ~CanReply THEN <<>> ELSE <<ReplyFrame(ws, to, payload, error)>>

\* _sendReply, lines 279-284: the frames it writes
SendReply(to, payload, error) ==
    IF ~Truthy(to.id) THEN <<>>
    ELSE IF ~CanReply THEN <<>>
    ELSE <<ReplyFrame(ws, to, payload, error)>>

\* mutant of HandlerCall: the exception of a handler is not caught
HandlerCall_NoCatch(b, env) ==
    [escaped |-> b = "throws", out |-> <<>>, rejects |-> b = "rejects"]

\* lines 263-275, one handler: the try block with its catch.  A handler
\* that throws is answered by ctx.replyError('handler threw'); the promise
\* of one that rejects is answered later (HandlerRejects)
HandlerCall(b, env) ==
    [escaped |-> FALSE,
     out |-> IF b = "throws" THEN SendReply(env, "undefined", "handler threw")
                             ELSE <<>>,
     rejects |-> b = "rejects"]

\* the members of a set of numbers in ascending order
RECURSIVE Ascending(_)
Ascending(S) ==
    IF S = {} THEN <<>>
    ELSE LET m == CHOOSE x \in S : \A y \in S : x <= y
         IN  <<m>> \o Ascending(S \ {m})

RECURSIVE DispatchLoop(_, _, _, _)
DispatchLoop(hs, beh, env, acc) ==
    IF hs = <<>> THEN acc
    ELSE LET h == Head(hs)
             r == HandlerCall(beh[h], env)
             now == [called |-> Append(acc.called, h),
                     how |-> Append(acc.how, beh[h]),
                     out |-> acc.out \o r.out,
                     rejects |-> IF r.rejects
                                 THEN acc.rejects \cup {<<h, env.type, env.id>>}
                                 ELSE acc.rejects,
                     threw |-> r.escaped]
         IN  IF r.escaped THEN now
             ELSE DispatchLoop(Tail(hs), beh, env, now)

\* ObjectSocket.prototype.onType; a function is subscribed once, and the
\* functions are numbered in the order they are subscribed in
OnType ==
    \E t \in EventTypes, h \in HandlerIds :
        /\ \A g \in handlers : g[2] # h
        /\ \A k \in HandlerIds : k < h => \E g \in handlers : g[2] = k
        /\ handlers' = handlers \cup {<<t, h>>}
        /\ last' = Did("onType", h, FALSE, <<>>, <<>>)
        /\ UNCHANGED <<sockVars, connVars, autoReconnect, optVars, hbVars,
                       reqVars, waitOp, waitState, waitTimers, moreVars,
                       closeCalled>>

\* ObjectSocket.prototype._handleMessage, lines 233-277, called with one of
\* the given frames
HandleMessage(frames) ==
    LET
        \* what the message callback did, added to Did
        Handled(raw, called, how) == [raw |-> raw, called |-> called, how |-> how]
        \* set.forEach of lines 263-275: the handlers called and what each did, the
        \* frames written, the promises that will reject (each with the type and id
        \* of the envelope), and whether an exception ended the loop.  acc is the
        \* result of the handlers called so far
        NoneCalled ==
            [called |-> <<>>, how |-> <<>>, out |-> <<>>, rejects |-> {},
             threw |-> FALSE]
        \* this._handlers.get(env.type), in the order forEach visits it
        Subscribers(table, type) == Ascending({h[2] : h \in {g \in table : g[1] = type}})
        \* what a subscribed handler does when it is called: it returns, it throws,
        \* or it returns a promise that rejects later
        Behaviours == {"returns", "throws", "rejects"}
        \* line 241: the envelope is there and its type is a string
        HasType(env) == env.kind = "envelope"
        \* this._opts.decode(ev.data) with the default jsonDecode: JSON.parse throws
        \* on a malformed frame, else the parsed value is returned
        Decode(raw) == [threw |-> raw.kind = "malformed", env |-> raw]
    IN
    \E s \in SockIds, raw \in frames :
        /\ Receiving(s)
        /\ LET dec == Decode(raw)
               env == dec.env
           IN  IF dec.threw
               THEN LET f == DecodeFailure(tolerantDecode)
                    IN  /\ last' = Did("onmessage", s, f.threw, <<>>, f.emitted)
                                   @@ Handled(raw, <<>>, <<>>)
                        /\ UNCHANGED <<reqVars, reqValue, rejections>>
               ELSE IF ~HasType(env)
               THEN /\ last' = Did("onmessage", s, FALSE, <<>>, <<>>)
                               @@ Handled(raw, <<>>, <<>>)
                    /\ UNCHANGED <<reqVars, reqValue, rejections>>
               ELSE IF IsReply(env)
               THEN LET id == env.replyTo
                    IN  /\ IF id \in pending
                           THEN /\ reqTimers' = reqTimers \ {id}
                                /\ pending' = ReplyTable(pending, id)
                                /\ reqState' = [reqState EXCEPT ![id] =
                                      Settle(@, ReplyOutcome(env)[1])]
                                /\ reqValue' = [reqValue EXCEPT ![id] =
                                      ReplyOutcome(env)]
                                /\ settles' = [settles EXCEPT ![id] = @ + 1]
                                /\ cleanups' = [cleanups EXCEPT ![id] = @ + 1]
                           ELSE UNCHANGED <<reqTimers, pending, reqState,
                                            reqValue, settles, cleanups>>
                        /\ last' = Did("onmessage", s, FALSE, <<>>, <<>>)
                                   @@ Handled(raw, <<>>, <<>>)
                        /\ UNCHANGED <<idCounter, rejections>>
               ELSE LET hs == Subscribers(handlers, env.type)
                    IN  \E beh \in [{hs[i] : i \in 1..Len(hs)} -> Behaviours] :
                        \E r \in {DispatchLoop(hs, beh, env, NoneCalled)} :
                            /\ last' = Did("onmessage", s, r.threw, r.out, <<>>)
                                       @@ Handled(raw, r.called, r.how)
                            /\ rejections' = rejections \cup r.rejects
                            /\ UNCHANGED <<reqVars, reqValue>>
        /\ UNCHANGED <<sockVars, connVars, autoReconnect, optVars, hbVars,
                       waitVars, tolerantDecode, calc, flowVars, pollVars, post,
                       closeCalled>>

\* the catch callback of line 271: the promise a handler returned rejects
HandlerRejects ==
    \E r \in rejections :
        LET to == [type |-> r[2], id |-> r[3]]
        IN  /\ rejections' = rejections \ {r}
            /\ last' = Did("handlerRejected", r[1], FALSE,
                           SendReply(to, "undefined", "handler error"), <<>>)
                       @@ [to |-> to]
            /\ UNCHANGED <<sockVars, connVars, autoReconnect, optVars, hbVars,
                           reqVars, waitVars, tolerantDecode, reqValue, calc,
                           flowVars, pollVars, post, closeCalled>>

\* ------------------------------------------------------ defaultBackoff
Min(a, b) == IF a < b THEN a ELSE b

\* Math.floor(Math.random() * 250), Math.random() being random/RandomGrain
Jitter(random) == (random * 250) \div RandomGrain

\* mutant of defaultBackoff: the delay is not capped
defaultBackoff_NoCap(attempt, random) ==
    500 * 2^attempt + Jitter(random)

\* defaultBackoff, lines 32-36
defaultBackoff(attempt, random) ==
    LET base == 500 * 2^attempt
        jitter == Jitter(random)
    IN  Min(30000, base) + jitter

\* a call of defaultBackoff is about to be made
InitBackoff ==
    /\ InitWith({o \in Options : o.autoReconnect /\ o.maxReconnects = Infinity
                                  /\ o.intervalMs = 25000})
    /\ \E attempt \in 0..MaxAttempt, random \in 0..(RandomGrain - 1) :
          calc = [fn |-> "defaultBackoff", arg |-> <<attempt, random>>,
                  out |-> <<>>]

\* the call returns
Backoff ==
    /\ calc.fn = "defaultBackoff"
    /\ calc.out = <<>>
    /\ calc' = [calc EXCEPT !.out = <<defaultBackoff(calc.arg[1], calc.arg[2])>>]
    /\ UNCHANGED <<sockVars, connVars, autoReconnect, optVars, hbVars, reqVars,
                   waitVars, msgVars, flowVars, pollVars, post, closeCalled, last>>

\* ------------------------------------------------- JavaScript values
\* a value is a record whose kind is its typeof (with "null" apart); an
\* object carries its own properties as a function from keys to values
Undefined == [kind |-> "undefined"]
Null == [kind |-> "null"]
Num(n) == [kind |-> "number", num |-> n]
Str(s) == [kind |-> "string", str |-> s]
Bool(b) == [kind |-> "boolean", bool |-> b]
Obj(props) == [kind |-> "object", obj |-> props]
Arr(items) == [kind |-> "array", arr |-> items]
NoProps == [k \in {} |-> Undefined]

\* ToBoolean: what  if (v),  v || w  and  v && w  look at
Falsy(v) ==
    \/ v.kind \in {"undefined", "null"}
    \/ v.kind = "number" /\ v.num = 0
    \/ v.kind = "string" /\ v.str = ""
    \/ v.kind = "boolean" /\ ~v.bool

\* v.key (undefined when v has no such property; v is not null/undefined)
Get(v, key) ==
    IF v.kind = "object" /\ key \in DOMAIN v.obj THEN v.obj[key] ELSE Undefined

\* Object.assign(target, source) on the properties of target
ObjectAssign(props, source) ==
    LET
        \* the own enumerable properties Object.assign copies from a source: those
        \* of an object; the characters of a string (the strings of the model that
        \* are used as payloads have at most one character); none of other values
        OwnProps(v) ==
            IF v.kind = "object" THEN v.obj
            ELSE IF v.kind = "string" /\ v.str # "" THEN [k \in {"0"} |-> v]
            ELSE NoProps
        more == OwnProps(source)
    IN  [k \in DOMAIN props \cup DOMAIN more |->
            IF k \in DOMAIN more THEN more[k] ELSE props[k]]

\* JSON.stringify, as the document it writes: properties whose value is
\* undefined are left out of an object
RECURSIVE Stringify(_)
Stringify(v) ==
    IF v.kind = "object"
    THEN Obj([k \in {j \in DOMAIN v.obj : v.obj[j].kind # "undefined"} |->
                 Stringify(v.obj[k])])
    ELSE v

\* ---------------------------------------------------- the adapter's encode
\* the types written in the {Method: ...} dialect, line 294
MethodTypes == {"Info_ManagerForEnroll", "Enrollment", "Info_Enrollment"}

\* encode, lines 292-300
encode(env) ==
    LET
        \* v || w
        OrElse(v, w) == IF Falsy(v) THEN w ELSE v
    IN
    IF /\ ~Falsy(env) /\ Get(env, "type").kind = "string"
       /\ Get(env, "type").str \in MethodTypes
    THEN Stringify(Obj(ObjectAssign([Method |-> Get(env, "type")],
                                    OrElse(Get(env, "payload"), Obj(NoProps)))))
    ELSE Stringify(IF Falsy(env) THEN env
                   ELSE OrElse(Get(env, "payload"), env))

\* a call of encode is about to be made
InitEncode ==
    LET
        \* the envelopes send (line 127) and request (line 134) hand to encode
        Envelopes ==
            LET \* payloads: none, null, falsy and truthy primitives, and objects: empty,
                \* with workflow parameters, with a Method and with type and id of their own
                Payloads ==
                    {Undefined, Null, Num(0), Num(7), Str(""), Str("x"), Bool(FALSE),
                     Bool(TRUE), Obj(NoProps),
                     Obj([Name |-> Str("participant"), PIN |-> Str("1234")]),
                     Obj([Method |-> Str("Other"), Token |-> Str("t")]),
                     Obj([type |-> Str("inner"), id |-> Num(5)])}
            IN
            LET \* the types the workflow client sends, and a heartbeat
                SentTypes == MethodTypes \cup {"Sign", "CheckPIN", "PING"}
            IN
            {Obj([type |-> Str(t), payload |-> p]) : t \in SentTypes, p \in Payloads}
            \cup {Obj([type |-> Str(t), id |-> Str("id-1"), payload |-> p]) :
                    t \in SentTypes, p \in Payloads}
    IN
    /\ InitWith({o \in Options : o.autoReconnect /\ o.maxReconnects = Infinity
                                  /\ o.intervalMs = 0})
    /\ \E env \in Envelopes :
          calc = [fn |-> "encode", arg |-> <<env>>, out |-> <<>>]

\* the call returns
Encode ==
    /\ calc.fn = "encode"
    /\ calc.out = <<>>
    /\ calc' = [calc EXCEPT !.out = <<encode(calc.arg[1])>>]
    /\ UNCHANGED <<sockVars, connVars, autoReconnect, optVars, hbVars, reqVars,
                   waitVars, msgVars, flowVars, pollVars, post, closeCalled, last>>

\* ---------------------------------------------------- the adapter's decode
\* The texts of the model and the string functions decode applies to them.
\* Hex64 stands for a text of 64 hexadecimal digits
Hex64 == "0123456789ABCDEF0123456789ABCDEF0123456789ABCDEF0123456789ABCDEF"
Hex64Lower == "0123456789abcdef0123456789abcdef0123456789abcdef0123456789abcdef"

\* String.prototype.trim
Trim(s) ==
    CASE s = " success.enroll " -> "success.enroll"
      [] s = "   " -> ""
      [] OTHER -> s

\* String.prototype.toUpperCase
ToUpperCase(s) ==
    CASE s = "success.enroll" -> "SUCCESS.ENROLL"
      [] s = "error.wrong_pin" -> "ERROR.WRONG_PIN"
      [] s = Hex64Lower -> Hex64
      [] s = "0x" \o Hex64 -> "0X" \o Hex64
      [] s = "{oops}" -> "{OOPS}"
      [] OTHER -> s

\* ToNumber of a value, <<n>>, or <<>> for NaN
ToNumber(v) ==
    CASE v.kind = "number" -> <<v.num>>
      [] v.kind = "boolean" -> IF v.bool THEN <<1>> ELSE <<0>>
      [] v.kind = "null" -> <<0>>
      [] v.kind = "string" ->
            (CASE v.str \in {"", "   ", "0"} -> <<0>>
               [] v.str = "3" -> <<3>>
               [] OTHER -> <<>>)
      [] v.kind = "array" -> IF v.arr = <<>> THEN <<0>> ELSE <<>>
      [] OTHER -> <<>>


\* v > 0
GreaterThanZero(v) == ToNumber(v) # <<>> /\ ToNumber(v)[1] > 0

\* an inbound text frame: a JSON text with the value it denotes, or a text
\* that is not JSON
JsonFrame(v) == [json |-> TRUE, val |-> v]
TextFrame(s) == [json |-> FALSE, val |-> Str(s)]

\* lines 309-326: the tolerant parse
TolerantParse(frame) ==
    LET
        \* JSON.parse of a text that looks like JSON: <<value>>, or <<>> when it
        \* throws
        ParseInner(s) ==
            CASE s = "{\"ParticipantsEnrolled\":3}" ->
                    <<Obj([ParticipantsEnrolled |-> Num(3)])>>
              [] s = "[]" -> <<Arr(<<>>)>>
              [] OTHER -> <<>>
        \* (s.startsWith('{') && s.endsWith('}')) || (s.startsWith('[') && s.endsWith(']'))
        LooksLikeJson(s) == s \in {"{\"ParticipantsEnrolled\":3}", "{oops}", "[]"}
        first == IF frame.json THEN frame.val
                 ELSE Obj([Message |-> frame.val])
    IN  IF ~Falsy(first) /\ first.kind = "string"
        THEN LET t == Trim(first.str)
             IN  IF LooksLikeJson(t)
                 THEN IF ParseInner(t) # <<>> THEN ParseInner(t)[1]
                      ELSE Obj([Message |-> Str(t)])
                 ELSE Obj([Message |-> Str(t)])
        ELSE first

\* mutant of Classified: a signature result keeps the name of its marker
Classified_Marker(type, payload) ==
    [threw |-> FALSE,
     type |-> IF type = "SIGN_RESULT" THEN "SUCCESS.SIGNATURE_ADDED" ELSE type,
     payload |-> payload]

\* what decode returns or that it raised
Classified(type, payload) == [threw |-> FALSE, type |-> type, payload |-> payload]

\* mutant of SerialPayload: the text is left in Message only
SerialPayload_MessageOnly(m) == Obj([Message |-> Str(m)])

\* the payload rule 7 makes up, line 371
SerialPayload(m) == Obj([SerialNumber |-> Str(m), Message |-> Str(m)])

\* decode, lines 303-379
decode(frame) ==
    LET
        \* msg?.TxHash || msg?.txHash || msg?.txid || msg?.TxId || msg?.TransactionId
        HasTxField(msg) ==
            \E k \in {"TxHash", "txHash", "txid", "TxId", "TransactionId"} :
                ~Falsy(Get(msg, k))
        Raised == [threw |-> TRUE, type |-> "", payload |-> Undefined]
        \* v == 0: null and undefined equal only each other, everything else is
        \* compared as a number
        LooseEqualsZero(v) ==
            /\ v.kind \notin {"null", "undefined"}
            /\ ToNumber(v) = <<0>>
        \* mUpper.startsWith('SUCCESS.SIGNATURE_')
        IsSignatureMarker(s) ==
            s \in {"SUCCESS.SIGNATURE_ADDED", "SUCCESS.SIGNATURE_ENDED",
                   "SUCCESS.SIGNATURE_LOST"}
        \* /^[0-9a-fA-F]{64}$/.test(hex)
        Is64HexText(s) == s \in {Hex64, Hex64Lower}
        \* m.startsWith('0x') ? m.slice(2) : m
        Unprefixed(s) == IF s = "0x" \o Hex64 THEN Hex64 ELSE s
        msg == TolerantParse(frame)
        isObject == ~Falsy(msg) /\ msg.kind \in {"object", "array"}
        m == IF Get(msg, "Message").kind = "string"
             THEN Trim(Get(msg, "Message").str) ELSE ""
        mUpper == ToUpperCase(m)
        is64Hex == Is64HexText(Unprefixed(m))
        serial == Get(msg, "SerialNumber")
    IN  IF isObject /\ LooseEqualsZero(Get(msg, "ParticipantsEnrolled"))
        THEN Classified("MANAGER_INFO", msg)
        ELSE IF msg.kind \in {"null", "undefined"} THEN Raised
        ELSE IF GreaterThanZero(Get(msg, "ParticipantsEnrolled"))
        THEN Classified("ENROLLMENT_STATUS", msg)
        ELSE IF mUpper = "SUCCESS.ENROLL"
        THEN Classified("ENROLLMENT_RESULT", msg)
        ELSE IF mUpper \in {"SUCCESS.SIGNATURE_ADDED", "SUCCESS.SIGNATURE_ENDED"}
        THEN Classified("SIGN_RESULT", msg)
        ELSE IF is64Hex \/ HasTxField(msg)
        THEN Classified("SIGN_RESULT", msg)
        ELSE IF serial.kind = "string" /\ serial.str # ""
        THEN Classified("SUCCESS.PIN_SERIAL", msg)
        ELSE IF /\ m # "" /\ mUpper # "ERROR.WRONG_PIN"
                /\ ~IsSignatureMarker(mUpper) /\ mUpper # "SUCCESS.ENROLL"
                /\ ~is64Hex
        THEN Classified("SUCCESS.PIN_SERIAL", SerialPayload(m))
        ELSE IF mUpper = "ERROR.WRONG_PIN"
        THEN Classified("ERROR.WRONG_PIN", msg)
        ELSE Classified("UNKNOWN", msg)

\* a frame is about to be handed to decode
InitDecode ==
    LET Frames ==
            LET \* message texts: the markers, in other case and padded, a signature marker
                \* the service might add, transaction hashes, free text, blank texts
                MessageTexts ==
                    {"SUCCESS.ENROLL", " success.enroll ", "SUCCESS.SIGNATURE_ADDED",
                     "SUCCESS.SIGNATURE_ENDED", "SUCCESS.SIGNATURE_LOST", Hex64Lower,
                     "0x" \o Hex64, "ERROR.WRONG_PIN", "error.wrong_pin", "PIN OK", "", "   "}
            IN
            LET \* JSON texts of other values: null, numbers, booleans, an array, strings
                \* (bare markers, free text, doubly encoded JSON, text that only looks like
                \* JSON), and texts that are not JSON
                OtherFrames ==
                    {JsonFrame(v) : v \in {Null, Num(0), Num(5), Bool(FALSE), Bool(TRUE),
                                           Arr(<<>>), Obj([foo |-> Str("bar")])}}
                    \cup {JsonFrame(Str(t)) :
                            t \in MessageTexts \cup {"{\"ParticipantsEnrolled\":3}", "{oops}",
                                                     "[]"}}
                    \cup {TextFrame(t) : t \in {"PIN OK", "SUCCESS.ENROLL", Hex64Lower,
                                                "{oops}", ""}}
            IN
            LET ObjectFrames ==
                    LET \* the object with the fields that are present
                        ObjectOf(fields) ==
                            Obj([k \in {f \in DOMAIN fields : fields[f] # Undefined} |-> fields[k]])
                    IN
                    LET TxidValues == {Undefined, Str("cd34"), Str("")}
                    IN
                    LET TxHashValues == {Undefined, Str("ab12")}
                    IN
                    LET SerialValues == {Undefined, Str("ABC123"), Str(""), Num(5)}
                    IN
                    LET MessageValues == {Undefined, Num(7)} \cup {Str(t) : t \in MessageTexts}
                    IN
                    LET \* the frames of the model.  Values of ParticipantsEnrolled: a count of zero
                        \* and of three, and the values of other types; Undefined is a field the
                        \* frame does not have
                        EnrolledValues ==
                            {Undefined, Null, Num(0), Num(3), Num(0 - 1), Str("0"), Str(""), Str("3"),
                             Bool(FALSE), Bool(TRUE), Arr(<<>>)}
                    IN
                    {JsonFrame(ObjectOf([ParticipantsEnrolled |-> pe, Message |-> m,
                                         SerialNumber |-> sn, TxHash |-> th, txid |-> ti])) :
                        pe \in EnrolledValues, m \in MessageValues, sn \in SerialValues,
                        th \in TxHashValues, ti \in TxidValues}
            IN
                  ObjectFrames \cup OtherFrames
    IN
    /\ InitWith({o \in Options : o.autoReconnect /\ o.maxReconnects = Infinity
                                  /\ o.intervalMs = 0})
    /\ \E frame \in Frames :
          calc = [fn |-> "decode", arg |-> <<frame>>, out |-> <<>>]

\* the call returns or raises
Classify ==
    /\ calc.fn = "decode"
    /\ calc.out = <<>>
    /\ calc' = [calc EXCEPT !.out = <<decode(calc.arg[1])>>]
    /\ UNCHANGED <<sockVars, connVars, autoReconnect, optVars, hbVars, reqVars,
                   waitVars, msgVars, flowVars, pollVars, post, closeCalled, last>>

\* ---------------------------------------------------- EnrollmentClient
\* the timeout constants, lines 10-14
CHECKPIN_TIMEOUT == 300000
SENDSTATUS_TIMEOUT == 10000
STATUS_POLLING_INTERVAL == 5000
DEFAULT_ENROLL_WAITFOR_TIMEOUT == 300000
SIGNATURE_TIMEOUT == 300000

WorkflowOps == {"requestManagerInfo", "enroll", "sign", "checkPIN", "sendStatus"}

\* the outbound type of each operation, lines 407-439
OutType(op) ==
    CASE op = "requestManagerInfo" -> "Info_Enrollment"
      [] op = "enroll" -> "Enrollment"
      [] op = "sign" -> "Sign"
      [] op = "checkPIN" -> "CheckPIN"
      [] op = "sendStatus" -> "Info_Enrollment"

\* mutant of ExpectList: a call subscribes to nothing
ExpectList_None(op) == {}

\* the event types each operation waits for, lines 407-439, and those of
\* waitFor, lines 461-462
ExpectList(op) ==
    CASE op = "requestManagerInfo" -> {"MANAGER_INFO"}
      [] op = "enroll" -> {"ENROLLMENT_RESULT"}
      [] op = "sign" -> {"SIGN_RESULT", "SUCCESS.SIGNATURE_ADDED",
                         "SUCCESS.SIGNATURE_ENDED"}
      [] op = "checkPIN" -> {"SUCCESS.PIN_SERIAL", "ERROR.WRONG_PIN"}
      [] op = "sendStatus" -> {"ENROLLMENT_STATUS"}
      [] op = "waitFor" -> {"ENROLLMENT_STATUS", "ENROLLMENT_RESULT"}

\* mutant of TimeoutMs: the default of _sendAndWait for every operation
TimeoutMs_Default(op) == 15000

\* the delay each operation arms its timer with, lines 407-439 and 457
TimeoutMs(op) ==
    CASE op = "requestManagerInfo" -> 60000
      [] op = "enroll" -> 200000
      [] op = "sign" -> SIGNATURE_TIMEOUT
      [] op = "checkPIN" -> CHECKPIN_TIMEOUT
      [] op = "sendStatus" -> SENDSTATUS_TIMEOUT
      [] op = "waitFor" -> DEFAULT_ENROLL_WAITFOR_TIMEOUT

\* mutant of Satisfied: every status is accepted
Satisfied_Any(pred, payload) == TRUE

\* try { if (predicate(s)) ... } catch (_) {}, line 461
Satisfied(pred, payload) ==
    CASE pred = "always" -> TRUE
      [] pred = "atLeast3" ->
            LET n == ToNumber(Get(payload, "ParticipantsEnrolled"))
            IN  n # <<>> /\ n[1] >= 3
      [] OTHER -> FALSE

\* the wait slot a new call takes
FreeWait(w) ==
    /\ waitState[w] = "none"
    /\ \A v \in WaitIds : v < w => waitState[v] # "none"

\* the promise body of _sendAndWait, lines 475-489, and of waitFor, lines
\* 459-463: a timer and one subscription for each awaited type
StartWait(op, w, pred) ==
    /\ waitOp' = [waitOp EXCEPT ![w] = op]
    /\ waitState' = [waitState EXCEPT ![w] = "pending"]
    /\ waitTimers' = waitTimers \cup {w}
    /\ handlers' = handlers \cup {<<t, w>> : t \in ExpectList(op)}
    /\ waitPredicate' = [waitPredicate EXCEPT ![w] = pred]
    /\ UNCHANGED waitValue

\* what a call added to Did: the delay its timer was armed with
Armed(op) == [timeoutMs |-> TimeoutMs(op)]

\* EnrollmentClient.prototype._sendAndWait: sock.send throws before any
\* subscription or timer is made when the socket is not open
SendAndWait ==
    \E op \in WorkflowOps :
        IF CanSend
        THEN \E w \in WaitIds :
             /\ FreeWait(w)
             /\ StartWait(op, w, "none")
             /\ last' = Did(op, w, FALSE, <<Frame(ws, OutType(op), 0)>>, <<>>)
                        @@ Armed(op)
             /\ UNCHANGED <<sockVars, connVars, autoReconnect, optVars, hbVars,
                            reqVars, msgVars, calc, pollVars, post, closeCalled>>
        ELSE /\ last' = Did(op, 0, TRUE, <<>>, <<>>)
             /\ UNCHANGED <<sockVars, connVars, autoReconnect, optVars, hbVars,
                            reqVars, waitVars, closeCalled, moreVars>>

\* EnrollmentClient.prototype.waitFor with the default timeout: nothing is
\* written
WaitFor ==
    LET
        \* the predicates waitFor is called with: one that accepts every status, one
        \* that accepts none, one that raises, and "at least three participants"
        Predicates == {"always", "never", "throws", "atLeast3"}
    IN
    \E pred \in Predicates, w \in WaitIds :
        /\ FreeWait(w)
        /\ StartWait("waitFor", w, pred)
        /\ last' = Did("waitFor", w, FALSE, <<>>, <<>>) @@ Armed("waitFor")
        /\ UNCHANGED <<sockVars, connVars, autoReconnect, optVars, hbVars,
                       reqVars, msgVars, calc, pollVars, post, closeCalled>>

\* mutant of Unsubscribed: only the first subscription of the call is removed
Unsubscribed_OneType(table, w) ==
    table \ {CHOOSE h \in table \cup {<<"", w>>} : h[2] = w}

\* cleanup() of _sendAndWait and off() of waitFor: every subscription of
\* the call is removed
Unsubscribed(table, w) == {h \in table : h[2] # w}

\* the setTimeout callback of _sendAndWait, lines 478-481, and of waitFor,
\* line 460
WaitTimeout ==
    \E w \in waitTimers :
        /\ waitTimers' = SpentTimer(waitTimers, w)
        /\ handlers' = Unsubscribed(handlers, w)
        /\ waitState' = [waitState EXCEPT ![w] = Settle(@, "timeout")]
        /\ last' = Did("waitTimeout", w, FALSE, <<>>, <<>>)
        /\ UNCHANGED <<sockVars, connVars, autoReconnect, optVars, hbVars,
                       reqVars, waitOp, closeCalled, moreVars>>

\* mutant of WaitResult: the bare payload whatever was awaited
WaitResult_Bare(op, env) == env.payload

\* what a wait resolves with, line 486: {type, payload} when _sendAndWait
\* awaited more than one type; the payload otherwise and for waitFor
WaitResult(op, env) ==
    IF op # "waitFor" /\ Cardinality(ExpectList(op)) > 1
    THEN Obj([type |-> Str(env.type), payload |-> env.payload])
    ELSE env.payload

\* mutant of UnsubscribedAll: only one of the waits cleans up
UnsubscribedAll_One(table, waits) ==
    IF waits = {} THEN table
    ELSE Unsubscribed(table, CHOOSE x \in waits : TRUE)

RECURSIVE UnsubscribedAll(_, _)
\* the subscriptions left when each of the waits has cleaned up
UnsubscribedAll(table, waits) ==
    IF waits = {} THEN table
    ELSE LET w == CHOOSE x \in waits : TRUE
         IN  UnsubscribedAll(Unsubscribed(table, w), waits \ {w})

\* _handleMessage, lines 260-276, on the client's transport: the envelope
\* is handed to every handler subscribed to its type; the handler of a wait
\* cancels the wait's timer, removes its subscriptions and resolves it
Deliver(env) ==
    LET
        \* the handler of a wait settles it: always for _sendAndWait (line 484) and
        \* for waitFor's ENROLLMENT_RESULT (line 462), when the predicate holds for
        \* waitFor's ENROLLMENT_STATUS (line 461)
        Fires(w) ==
            \/ waitOp[w] # "waitFor"
            \/ env.type # "ENROLLMENT_STATUS"
            \/ Satisfied(waitPredicate[w], env.payload)
        hit == {w \in WaitIds : <<env.type, w>> \in handlers /\ Fires(w)}
    IN  /\ waitTimers' = waitTimers \ hit
        /\ handlers' = UnsubscribedAll(handlers, hit)
        /\ waitState' = [w \in WaitIds |->
              IF w \in hit THEN Settle(waitState[w], "resolved")
                           ELSE waitState[w]]
        /\ waitValue' = [w \in WaitIds |->
              IF w \in hit /\ waitState[w] = "pending"
              THEN <<WaitResult(waitOp[w], env)>> ELSE waitValue[w]]
        /\ UNCHANGED <<waitOp, waitPredicate>>

\* the types the adapter's decode returns, lines 328-378
SevenTypes ==
    {"MANAGER_INFO", "ENROLLMENT_STATUS", "ENROLLMENT_RESULT", "SIGN_RESULT",
     "SUCCESS.PIN_SERIAL", "ERROR.WRONG_PIN", "UNKNOWN"}

\* the message callback with a frame of each type decode returns
OnEvent ==
    LET
        \* a payload whose content does not matter
        SomePayload == Obj(NoProps)
    IN
    \E s \in SockIds, t \in SevenTypes :
        /\ Receiving(s)
        /\ Deliver(Classified(t, SomePayload))
        /\ last' = Did("onevent", 0, FALSE, <<>>, <<>>)
        /\ UNCHANGED <<sockVars, connVars, autoReconnect, optVars, hbVars,
                       reqVars, msgVars, calc, pollVars, post, closeCalled>>

\* the same callback, keeping what it did: the socket the frame arrived on,
\* the type decode gave it and the calls it resolved
OnTypedEvent ==
    \E s \in SockIds, t \in SevenTypes :
        /\ Receiving(s)
        /\ Deliver(Classified(t, Obj(NoProps)))
        /\ last' = Did("onevent", s, FALSE, <<>>, <<>>)
                   @@ [type |-> t,
                       resolved |-> {w \in WaitIds : waitState[w] = "pending"
                                                     /\ waitState'[w] = "resolved"}]
        /\ UNCHANGED <<sockVars, connVars, autoReconnect, optVars, hbVars,
                       reqVars, msgVars, calc, pollVars, post, closeCalled>>

\* ObjectSocket.prototype._handleMessage, lines 233-277, with the adapter's
\* decode and the handlers of the client's waits; decode never returns a
\* replyTo
ClientMessage ==
    LET
        \* what the message callback of the client's transport did, added to Did
        Received(frame, env) == [raw |-> frame, env |-> env]
        \* the frames the client's transport receives: one or two for each rule of
        \* decode, in the forms the service sends (objects, bare strings, text that
        \* is not JSON), and null
        ClientFrames ==
            {JsonFrame(Obj([ParticipantsEnrolled |-> Num(0)])),
             JsonFrame(Obj([ParticipantsEnrolled |-> Num(1)])),
             JsonFrame(Obj([ParticipantsEnrolled |-> Num(3)])),
             JsonFrame(Obj([Message |-> Str("SUCCESS.ENROLL")])),
             JsonFrame(Str("SUCCESS.SIGNATURE_ADDED")),
             JsonFrame(Obj([TxHash |-> Str("ab12")])),
             JsonFrame(Obj([SerialNumber |-> Str("ABC123")])),
             JsonFrame(Obj([Message |-> Str("PIN OK")])),
             TextFrame("PIN OK"),
             JsonFrame(Str("ERROR.WRONG_PIN")),
             JsonFrame(Obj([Message |-> Str("ERROR.WRONG_PIN"),
                            SerialNumber |-> Str("ABC123")])),
             JsonFrame(Obj([Message |-> Str("error.wrong_pin"),
                            TxHash |-> Str("ab12")])),
             JsonFrame(Obj([Message |-> Str("SUCCESS.SIGNATURE_LOST")])),
             TextFrame("SUCCESS.ENROLL"),
             JsonFrame(Obj([foo |-> Str("bar")])),
             JsonFrame(Null)}
    IN
    \E s \in SockIds, frame \in ClientFrames :
        /\ Receiving(s)
        /\ LET env == decode(frame)
           IN  IF env.threw
               THEN LET f == DecodeFailure(tolerantDecode)
                    IN  /\ last' = Did("onmessage", s, f.threw, <<>>, f.emitted)
                                   @@ Received(frame, env)
                        /\ UNCHANGED <<waitVars, flowVars>>
               ELSE /\ Deliver(env)
                    /\ last' = Did("onmessage", s, FALSE, <<>>, <<>>)
                               @@ Received(frame, env)
        /\ UNCHANGED <<sockVars, connVars, autoReconnect, optVars, hbVars,
                       reqVars, msgVars, calc, pollVars, post, closeCalled>>

\* ----------------------------------------------------- status polling
\* mutant of StoppedTimers: the interval is not cleared
StoppedTimers_Keep(timers, timer) == timers

\* stopStatusPolling, line 452: if (this._statusTimer) clearInterval(...)
StoppedTimers(timers, timer) ==
    IF timer # 0 THEN timers \ {timer} ELSE timers

\* EnrollmentClient.prototype.startStatusPolling with the default interval:
\* the polling that is running is stopped, then a new interval is set
StartStatusPolling ==
    /\ pollCount < MaxPolls
    /\ LET t == pollCount + 1
       IN  /\ pollCount' = t
           /\ statusTimer' = t
           /\ pollTimers' = StoppedTimers(pollTimers, statusTimer) \cup {t}
           /\ last' = Did("startStatusPolling", t, FALSE, <<>>, <<>>)
                      @@ [everyMs |-> STATUS_POLLING_INTERVAL,
                          replaced |-> statusTimer]
    /\ UNCHANGED <<sockVars, connVars, autoReconnect, optVars, hbVars, reqVars,
                   waitVars, msgVars, calc, flowVars, post, closeCalled>>

\* EnrollmentClient.prototype.stopStatusPolling, also what the function
\* startStatusPolling returns does
StopStatusPolling ==
    /\ pollTimers' = StoppedTimers(pollTimers, statusTimer)
    /\ statusTimer' = 0
    /\ last' = Did("stopStatusPolling", statusTimer, FALSE, <<>>, <<>>)
    /\ UNCHANGED <<sockVars, connVars, autoReconnect, optVars, hbVars, reqVars,
                   waitVars, msgVars, calc, flowVars, pollCount, post,
                   closeCalled>>

\* the setInterval callback of startStatusPolling, lines 445-447: one
\* interval has elapsed.  sendStatus is _sendAndWait, which throws when the
\* socket is not open
PollTick ==
    LET
        \* the test of the interval callback, line 446: self.sock.isConnected
        ShouldPoll == connected
        \* what the interval callback did, added to Did: whether it called
        \* sendStatus
        Polled(called) == [called |-> called]
    IN
    \E t \in pollTimers :
        /\ IF ~ShouldPoll
           THEN /\ last' = Did("pollTick", t, FALSE, <<>>, <<>>) @@ Polled(FALSE)
                /\ UNCHANGED <<waitVars, flowVars>>
           ELSE IF ~CanSend
           THEN /\ last' = Did("pollTick", t, TRUE, <<>>, <<>>) @@ Polled(TRUE)
                /\ UNCHANGED <<waitVars, flowVars>>
           ELSE \E w \in WaitIds :
                /\ FreeWait(w)
                /\ StartWait("sendStatus", w, "none")
                /\ last' = Did("pollTick", t, FALSE,
                               <<Frame(ws, OutType("sendStatus"), 0)>>, <<>>)
                           @@ Polled(TRUE)
        /\ UNCHANGED <<sockVars, connVars, autoReconnect, optVars, hbVars,
                       reqVars, msgVars, calc, pollVars, post, closeCalled>>

\* ------------------------------------------------ POST /api/addresses
\* server.js, app.post('/api/addresses').  The handler is an async
\* function: it runs up to its next await, where the database call or the
\* backoff timer it waits for is the environment's move.  A field of the
\* body that is absent or empty is "" (the handler only tests truthiness).
maxRetries == 5

\* the errors a database call may fail with: lock and timeout errors as
\* Sequelize and SQLite report them, and others
DbErrors ==
    {[name |-> "SequelizeTimeoutError", message |-> "query timed out"],
     [name |-> "SequelizeDatabaseError", message |-> "SQLITE_BUSY: database is locked"],
     [name |-> "Error", message |-> "database is locked"],
     [name |-> "SequelizeValidationError", message |-> "Validation error"],
     [name |-> "SequelizeConnectionError", message |-> "unable to open database file"]}

\* mutant of IsLockError: only the name of the error is looked at
IsLockError_NameOnly(err) == err.name = "SequelizeTimeoutError"

\* the test of the catch block, lines 147-149
IsLockError(err) ==
    LET
        \* String.prototype.includes on the messages of the model
        Includes(message, part) ==
            CASE part = "SQLITE_BUSY" -> message = "SQLITE_BUSY: database is locked"
              [] part = "database is locked" ->
                    message \in {"SQLITE_BUSY: database is locked", "database is locked"}
              [] OTHER -> FALSE
    IN
    \/ err.name = "SequelizeTimeoutError"
    \/ Includes(err.message, "SQLITE_BUSY")
    \/ Includes(err.message, "database is locked")

\* res.status(code).json(...) and return
Respond(p, code) ==
    [p EXCEPT !.pc = "done", !.responses = Append(@, code)]

\* the loop test and the body up to its first await, lines 114-122
LoopHead(p) ==
    IF ~(p.attempt < maxRetries) THEN [p EXCEPT !.pc = "done"]
    ELSE IF p.body.address = "" THEN Respond(p, 400)
    ELSE [p EXCEPT !.pc = "findOrCreate", !.dbCalls = @ + 1]

\* the catch block up to its await or return, lines 144-167
Catch(p, err) ==
    LET
        \* line 152, with Math.pow as repeated doubling
        backoffDelay(attempt) == Min(100 * 2^(attempt - 1), 2000)
        q == [p EXCEPT !.attempt = @ + 1, !.errors = Append(@, err)]
    IN  IF IsLockError(err)
        THEN IF q.attempt < maxRetries
             THEN [q EXCEPT !.pc = "backoff",
                            !.delays = Append(@, backoffDelay(q.attempt))]
             ELSE Respond(q, 503)
        ELSE Respond(q, 500)

\* a request arrives, and finds the table with or without a row for its
\* address
PostAddresses ==
    LET
        \* the request bodies
        Bodies ==
            [address : {"", "bc1q"}, asset : {"", "BTC", "ETH"}, partyGUID : {"", "g1", "g2"}]
        \* the rows the addresses table may hold for the address of the request:
        \* none (<<>>), or one with its asset and partyGUID
        Rows ==
            {<<>>, <<[asset |-> "BTC", partyGUID |-> ""]>>,
             <<[asset |-> "ETH", partyGUID |-> "g1"]>>}
    IN
    /\ post.pc = "idle"
    /\ \E body \in Bodies, row \in Rows :
          post' = LoopHead([post EXCEPT !.body = body, !.row = row])
    /\ last' = Did("POST /api/addresses", 0, FALSE, <<>>, <<>>)
    /\ UNCHANGED <<sockVars, connVars, autoReconnect, optVars, hbVars, reqVars,
                   waitVars, msgVars, calc, flowVars, pollVars, closeCalled>>

\* Address.findOrCreate settles, lines 122-142: the row is created with
\* the defaults of lines 124-129 or found, or the call fails
FindOrCreateSettles ==
    LET
        \* lines 132-134
        needsUpdate(body, row) ==
            \/ body.asset # "" /\ row.asset # body.asset
            \/ body.partyGUID # "" /\ row.partyGUID # body.partyGUID
    IN
    /\ post.pc = "findOrCreate"
    /\ \/ /\ post.row = <<>>
          /\ post' = Respond([post EXCEPT !.row =
                         <<[asset |-> IF post.body.asset # "" THEN post.body.asset
                                      ELSE "BTC",
                            partyGUID |-> post.body.partyGUID]>>], 201)
       \/ /\ post.row # <<>>
          /\ IF needsUpdate(post.body, post.row[1])
             THEN post' = [post EXCEPT !.pc = "update", !.dbCalls = @ + 1]
             ELSE post' = Respond(post, 200)
       \/ \E err \in DbErrors : post' = Catch(post, err)
    /\ last' = Did("findOrCreate", 0, FALSE, <<>>, <<>>)
    /\ UNCHANGED <<sockVars, connVars, autoReconnect, optVars, hbVars, reqVars,
                   waitVars, msgVars, calc, flowVars, pollVars, closeCalled>>

\* row.update settles, lines 136-142
UpdateSettles ==
    /\ post.pc = "update"
    /\ \/ post' = Respond([post EXCEPT !.row =
                      <<[asset |-> IF post.body.asset # "" THEN post.body.asset
                                   ELSE post.row[1].asset,
                         partyGUID |-> IF post.body.partyGUID # ""
                                       THEN post.body.partyGUID
                                       ELSE post.row[1].partyGUID]>>], 200)
       \/ \E err \in DbErrors : post' = Catch(post, err)
    /\ last' = Did("update", 0, FALSE, <<>>, <<>>)
    /\ UNCHANGED <<sockVars, connVars, autoReconnect, optVars, hbVars, reqVars,
                   waitVars, msgVars, calc, flowVars, pollVars, closeCalled>>

\* the backoff timer of line 154 fires; continue
BackoffElapses ==
    /\ post.pc = "backoff"
    /\ post' = LoopHead(post)
    /\ last' = Did("backoff", 0, FALSE, <<>>, <<>>)
    /\ UNCHANGED <<sockVars, connVars, autoReconnect, optVars, hbVars, reqVars,
                   waitVars, msgVars, calc, flowVars, pollVars, closeCalled>>

\* ------------------------------------------------------ specification
\* bounds on what a behaviour may create
RequestsWithin(n) == idCounter <= n
WaitsWithin(n) == \A w \in WaitIds : w > n => waitState[w] = "none"

\* The transport: the connection's life cycle in full, with FewRequests
\* request() calls
Next ==
    \/ Connect
    \/ CreateSocket
    \/ OnOpen
    \/ OnError
    \/ OnClose
    \/ ReconnectTimer
    \/ Close
    \/ Send
    \/ (Request /\ RequestsWithin(FewRequests)')
    \/ RequestTimeout
    \/ HeartbeatTick
    \/ OnReply

Spec == Init /\ [][Next]_vars

\* The transport with its default options: the request table in full
NextReq ==
    \/ Connect
    \/ CreateSocket
    \/ OnOpen
    \/ OnError
    \/ OnClose
    \/ ReconnectTimer
    \/ Close
    \/ Send
    \/ Request
    \/ RequestTimeout
    \/ HeartbeatTick
    \/ OnReply

SpecReq == InitDefault /\ [][NextReq]_vars

\* The workflow client on its transport
NextClient ==
    \/ Connect
    \/ CreateSocket
    \/ OnOpen
    \/ OnError
    \/ OnClose
    \/ ReconnectTimer
    \/ Close
    \/ (SendAndWait /\ WaitsWithin(FewWaits)')
    \/ WaitTimeout
    \/ OnEvent

SpecClient == InitClient /\ [][NextClient]_vars

\* the message callback is explored with one socket at a time: connect()
\* is called when no socket is live
NoLiveSocket == \A s \in SockIds : readyState[s] \in {"NONE", "CLOSED", "THREW"}
\* failing handlers are explored on the first connection of a transport,
\* whose socket is constructed without an exception
FirstConnection == ws = 0 /\ NoLiveSocket
Constructed == ~last.threw
RejectionsWithin(n) == Cardinality(rejections) <= n

InitDispatch ==
    LET
        \* the transports whose message handling is explored: both decode modes
        DispatchOptions ==
            [autoReconnect : {FALSE}, maxReconnects : {Infinity}, intervalMs : {0},
             tolerantDecode : BOOLEAN]
    IN
                InitWith(DispatchOptions) /\ calc = NoCall

\* Events: envelopes handed to subscribed handlers that may throw or reject
NextEvents ==
    \/ (FirstConnection /\ Connect)
    \/ (CreateSocket /\ Constructed')
    \/ OnOpen
    \/ OnClose
    \/ Close
    \/ OnType
    \/ (HandleMessage(EventFrames) /\ RejectionsWithin(MaxRejections)')
    \/ HandlerRejects

SpecEvents == InitDispatch /\ [][NextEvents]_vars

\* Replies: reply envelopes and frames that are no envelopes, with requests
\* pending and handlers subscribed, on a socket that stays open
NextReplies ==
    \/ (NoLiveSocket /\ Connect)
    \/ CreateSocket
    \/ OnOpen
    \/ Request
    \/ OnType
    \/ HandleMessage(BadFrames \cup ReplyFrames)

SpecReplies == InitDispatch /\ [][NextReplies]_vars

\* The workflow client's calls and the frames that settle them, on a
\* connection that stays up
NextWorkflow ==
    \/ (FirstConnection /\ Connect)
    \/ (CreateSocket /\ Constructed')
    \/ OnOpen
    \/ (SendAndWait /\ WaitsWithin(FewWaits)')
    \/ (WaitFor /\ WaitsWithin(FewWaits)')
    \/ WaitTimeout
    \/ ClientMessage

SpecWorkflow == InitClient /\ [][NextWorkflow]_vars

\* Calls that overlap: MaxWaits calls on one connection, the events that
\* resolve them and their timers
NextOverlap ==
    \/ (FirstConnection /\ Connect)
    \/ (CreateSocket /\ Constructed')
    \/ OnOpen
    \/ SendAndWait
    \/ WaitFor
    \/ WaitTimeout
    \/ OnTypedEvent

SpecOverlap == InitClient /\ [][NextOverlap]_vars

\* Status polling over the life of a connection
NextPolling ==
    \/ (NoLiveSocket /\ Connect)
    \/ CreateSocket
    \/ OnOpen
    \/ OnClose
    \/ ReconnectTimer
    \/ Close
    \/ StartStatusPolling
    \/ StopStatusPolling
    \/ (PollTick /\ WaitsWithin(FewWaits)')
    \/ WaitTimeout

SpecPolling == InitClient /\ [][NextPolling]_vars

\* request() and workflow calls side by side, on a connection that is made
\* once and may be lost and made again by the transport
NextCalls ==
    \/ (FirstConnection /\ Connect)
    \/ CreateSocket
    \/ OnOpen
    \/ OnClose
    \/ ReconnectTimer
    \/ Request
    \/ RequestTimeout
    \/ (SendAndWait /\ WaitsWithin(FewWaits)')
    \/ WaitTimeout
    \/ OnEvent

SpecCalls == InitClient /\ [][NextCalls]_vars

\* workflow calls made on the first connection, the drops and the automatic
\* reconnections, and the frames and the timeouts that follow
NextReconnect ==
    \/ (FirstConnection /\ Connect)
    \/ CreateSocket
    \/ OnOpen
    \/ OnClose
    \/ ReconnectTimer
    \/ (ws = 1 /\ SendAndWait /\ WaitsWithin(FewWaits)')
    \/ WaitTimeout
    \/ OnTypedEvent

SpecReconnect == InitClient /\ [][NextReconnect]_vars

\* request() and workflow calls on one connection, with the events, the
\* close and the timers that end them; a timer that was set and not
\* cleared fires: the callbacks of setTimeout (lines 139 and 478) are run
\* by the event loop
NextSettles ==
    \/ (FirstConnection /\ Connect)
    \/ (CreateSocket /\ Constructed')
    \/ OnOpen
    \/ OnClose
    \/ (Request /\ RequestsWithin(FewRequests)')
    \/ RequestTimeout
    \/ (SendAndWait /\ WaitsWithin(FewWaits)')
    \/ (WaitFor /\ WaitsWithin(FewWaits)')
    \/ WaitTimeout
    \/ OnEvent

SpecSettles ==
    /\ InitClient /\ [][NextSettles]_vars
    /\ WF_vars(RequestTimeout) /\ WF_vars(WaitTimeout)

\* The server's handler of POST /api/addresses: one request, against each
\* content of the table; a database call that was started settles and a
\* timer that was set fires
InitAddresses ==
    /\ InitWith({o \in Options : o.autoReconnect /\ o.maxReconnects = Infinity
                                  /\ o.intervalMs = 25000})
    /\ calc = NoCall

NextAddresses ==
    \/ PostAddresses
    \/ FindOrCreateSettles
    \/ UpdateSettles
    \/ BackoffElapses

SpecAddresses ==
    InitAddresses /\ [][NextAddresses]_vars /\ WF_vars(NextAddresses)

\* defaultBackoff applied to every attempt index and every random draw
NextBackoff ==
    \/ Backoff

SpecBackoff == InitBackoff /\ [][NextBackoff]_vars

\* the adapter's encode applied to every envelope
NextEncode ==
    \/ Encode

SpecEncode == InitEncode /\ [][NextEncode]_vars

\* the adapter's decode applied to every frame
NextDecode ==
    \/ Classify

SpecDecode == InitDecode /\ [][NextDecode]_vars

\* ================================================================ claims
Settled == {"resolved", "rejected", "timeout", "closed"}
NotOpen == ws = 0 \/ readyState[ws] # "OPEN"
coreVars == <<sockVars, connVars, autoReconnect, optVars, hbVars, reqVars,
              waitVars>>

\* C1: every request() settles exactly once.  A request that was issued is
\* either unsettled, in the table with its timer armed and no settlement
\* made, or settled by exactly one of reply / timeout / close, with exactly
\* one cleanup, out of the table and with no timer left to fire.
C1_SettlesExactlyOnce ==
    \A id \in ReqIds :
        /\ reqState[id] = "none" =>
              /\ settles[id] = 0 /\ cleanups[id] = 0
              /\ id \notin pending /\ id \notin reqTimers
        /\ reqState[id] = "pending" =>
              /\ settles[id] = 0 /\ cleanups[id] = 0
              /\ id \in pending /\ id \in reqTimers
        /\ reqState[id] \in Settled =>
              /\ settles[id] = 1 /\ cleanups[id] = 1
              /\ id \notin pending /\ id \notin reqTimers

\* two requests, one failed by the close of the socket, the other settled
\* by a reply or by its timer
C1_Witness ==
    \E i, j \in ReqIds :
        /\ reqState[i] = "closed"
        /\ reqState[j] \in {"resolved", "rejected", "timeout"}

\* C2: the pending table holds exactly the requests that have not settled,
\* so once all N requests have settled it is back to its size before them.
C2_PendingTable ==
    /\ pending = {id \in ReqIds : reqState[id] = "pending"}
    /\ (\A id \in ReqIds : reqState[id] # "pending") => Cardinality(pending) = 0

\* all MaxRequests requests were outstanding together and the close of the
\* socket has settled them all
C2_Witness ==
    /\ last.op = "onclose"
    /\ \A id \in ReqIds : reqState[id] = "closed"
    /\ pending = {}

\* C3: when a socket closes, every outstanding request is rejected and the
\* pending table is empty when the close handler returns (the claim as
\* stated; the code does this only when _connected was true).
C3_CloseRejectsAll ==
    last.op = "onclose" => pending = {}

\* C4: a workflow call that is waiting when the socket closes is failed at
\* the close (the claim as stated; the code leaves it waiting).
C4_CloseFailsWaits ==
    last.op = "onclose" => \A w \in WaitIds : waitState[w] # "pending"

\* C5: the future of connect() is settled once its socket has closed: it
\* was resolved at the open, or rejected because the socket failed before
\* it opened (the claim as stated; the code never rejects it then).
C5_ConnectSettles ==
    \A s \in SockIds : readyState[s] = "CLOSED" => connectPromise[s] # "pending"

\* C6: close() is idempotent: a close() that directly follows a close()
\* raises no error and leaves autoReconnect, the heartbeat timer, the
\* sockets and every other field as the first one left them.
C6_CloseIdempotent ==
    [][(last.op = "close" /\ last'.op = "close") =>
          /\ ~last'.threw
          /\ ~autoReconnect' /\ heartbeatTimer' = 0
          /\ ws' # 0 => readyState'[ws'] \in {"CLOSING", "CLOSED"}
          /\ UNCHANGED coreVars]_vars

\* close() was called twice in a row on a transport whose socket is live
C6_Witness ==
    /\ last.op = "close"
    /\ last.arg = 1
    /\ ws # 0 /\ readyState[ws] = "CLOSING"
    /\ ~autoReconnect /\ heartbeatTimer = 0

\* C7: once close() has been called the transport itself makes no further
\* connect attempt (the claim as stated; a backoff timer armed before the
\* close() still fires and calls connect()).
C7_CloseIsTerminal ==
    closeCalled => last.op # "reconnectTimer"

\* C8: send() while the socket is absent or not open throws, writes no
\* frame and changes no field of the transport.
C8_SendNotOpen ==
    [][(last'.op = "send" /\ NotOpen) =>
          /\ last'.threw
          /\ last'.out = <<>>
          /\ UNCHANGED coreVars]_vars

\* send() failed on a transport that has a socket (not open) and a request
\* in its pending table
C8_Witness ==
    /\ last.op = "send" /\ last.threw
    /\ ws # 0 /\ readyState[ws] # "OPEN"
    /\ pending # {}

\* C9, first half: a close with autoReconnect on and attempts below the bound
\* arms exactly one backoff timer and emits exactly one 'reconnecting'
C9_OneReconnectPerClose ==
    [][(last'.op = "onclose" /\ autoReconnect
        /\ reconnectAttempts < maxReconnects) =>
          /\ reconnectTimers' = reconnectTimers + 1
          /\ last'.emitted = <<"disconnected", "reconnecting">>]_vars

\* C9, second half: with unbounded maxReconnects a transport that was never
\* close()d and has lost a socket keeps retrying: while no socket is open
\* there is a backoff timer armed or a connection attempt under way (the
\* claim as stated; an attempt whose socket cannot be constructed ends the
\* retrying).
C9_KeepsRetrying ==
    (/\ autoReconnect /\ ~closeCalled /\ maxReconnects = Infinity
     /\ \E s \in SockIds : readyState[s] = "CLOSED"
     /\ \A s \in SockIds : readyState[s] # "OPEN")
    => \/ reconnectTimers > 0
       \/ \E s \in SockIds : readyState[s] \in {"BUILDING", "CONNECTING", "CLOSING"}

\* C10: the attempt counter is 0 after every open, grows by one with every
\* close that schedules a reconnect and only then, never exceeds
\* maxReconnects, and no reconnect is scheduled once it has reached it.
C10_AttemptCounter ==
    [][/\ reconnectAttempts' <= maxReconnects'
       /\ last'.op = "onopen" => reconnectAttempts' = 0
       /\ last'.op = "onclose" =>
             IF autoReconnect /\ reconnectAttempts < maxReconnects
             THEN /\ reconnectAttempts' = reconnectAttempts + 1
                  /\ reconnectTimers' = reconnectTimers + 1
             ELSE /\ reconnectAttempts' = reconnectAttempts
                  /\ reconnectTimers' = reconnectTimers
       /\ last'.op \notin {"onopen", "onclose"} =>
             /\ reconnectAttempts' = reconnectAttempts
             /\ reconnectTimers' <= reconnectTimers
       /\ maxReconnects = 0 => reconnectTimers' = 0]_vars

\* a socket closed with the counter at its bound: no reconnect was scheduled
C10_Witness ==
    /\ last.op = "onclose"
    /\ last.emitted = <<"disconnected">>
    /\ autoReconnect
    /\ maxReconnects = 1 /\ reconnectAttempts = 1
    /\ reconnectTimers = 0

\* C11: for every attempt index k the default backoff delay d satisfies
\* min(30000, 500 * 2^k) <= d < min(30000, 500 * 2^k) + 250: the jitter is
\* added after the cap.
C11_BackoffRange ==
    (calc.fn = "defaultBackoff" /\ calc.out # <<>>) =>
        LET k == calc.arg[1]
            d == calc.out[1]
            capped == IF 500 * 2^k > 30000 THEN 30000 ELSE 500 * 2^k
        IN  capped <= d /\ d < capped + 250

\* a capped attempt with the largest jitter: the delay is above the cap
C11_Witness ==
    /\ calc.fn = "defaultBackoff" /\ calc.out = <<30249>>
    /\ calc.arg[1] = MaxAttempt

\* C12: a heartbeat ping is written only on a socket that is open, and only
\* when heartbeat.intervalMs is non-zero: a socket that has closed gets no
\* ping, the next ping goes to a socket that has opened; with intervalMs = 0
\* (the EnrollmentClient's socket) no interval is ever armed and no ping is
\* ever written.
C12_PingOnlyWhileOpen ==
    /\ (last.op = "heartbeat" /\ last.out # <<>>) =>
          /\ intervalMs # 0
          /\ ws # 0 /\ readyState[ws] = "OPEN" /\ connectPromise[ws] = "resolved"
          /\ last.out = <<Frame(ws, "PING", 0)>>
    /\ intervalMs = 0 =>
          /\ intervals = {} /\ heartbeatTimer = 0
          /\ last.op # "heartbeat"

\* a ping is written on the socket that was opened after another one closed
C12_Witness ==
    /\ last.op = "heartbeat" /\ last.out # <<>>
    /\ \E s \in SockIds : s # ws /\ readyState[s] = "CLOSED"

\* C13: in tolerant mode a frame whose decoding fails is dropped: exactly
\* one 'error' event is emitted, no exception leaves the message callback,
\* and the sockets, the connection state, the pending requests and the
\* subscriptions are as before; the message callback lets an exception
\* escape only when decoding fails with tolerant mode off.
C13_DecodeFailure ==
    [][last'.op = "onmessage" =>
          /\ last'.raw.kind = "malformed" =>
                /\ UNCHANGED <<coreVars, msgVars, closeCalled>>
                /\ last'.out = <<>> /\ last'.called = <<>>
                /\ tolerantDecode => ~last'.threw /\ last'.emitted = <<"error">>
                /\ ~tolerantDecode => last'.threw /\ last'.emitted = <<>>
          /\ last'.threw => ~tolerantDecode /\ last'.raw.kind = "malformed"]_vars

\* a malformed frame was dropped by a tolerant transport that is connected,
\* has a request pending and a handler subscribed
C13_Witness ==
    /\ last.op = "onmessage" /\ last.raw.kind = "malformed"
    /\ tolerantDecode /\ ~last.threw /\ last.emitted = <<"error">>
    /\ connected /\ ws # 0 /\ readyState[ws] = "OPEN"
    /\ pending # {} /\ handlers # {}

\* an envelope that reaches the dispatch of lines 260-276: it has a string
\* type and no (non-empty) replyTo
Dispatched(raw) == raw.kind = "envelope" /\ raw.replyTo \in {Absent, Empty}

\* C14: an inbound event is delivered to every handler subscribed to its
\* type, each exactly once, whatever the handlers before it did (returned,
\* threw, returned a promise that rejects) and whether or not the envelope
\* carries an id; no exception leaves the message callback.
C14_AllHandlersCalled ==
    (last.op = "onmessage" /\ Dispatched(last.raw)) =>
        /\ {last.called[i] : i \in 1..Len(last.called)}
              = {h \in HandlerIds : <<last.raw.type, h>> \in handlers}
        /\ Len(last.called)
              = Cardinality({h \in HandlerIds : <<last.raw.type, h>> \in handlers})
        /\ ~last.threw

\* two handlers of one type were called with an envelope and the first of
\* them threw
C14_Witness ==
    /\ last.op = "onmessage" /\ Dispatched(last.raw)
    /\ Len(last.called) >= 2
    /\ last.how[1] = "throws"
    /\ last.how[2] \in {"returns", "rejects"}

\* the error reply to an envelope, as it is written on the current socket
ErrorReply(type, id, message) ==
    [sock |-> ws, type |-> type \o ":REPLY", replyTo |-> id,
     payload |-> "undefined", error |-> message]

\* the number of handlers of the last message callback that threw
Thrown == Cardinality({i \in 1..Len(last.called) : last.how[i] = "throws"})

\* C15 as stated: when an envelope with an id is handed to a handler that
\* throws, or whose promise rejects, an error reply to it is written; when
\* the envelope has no id a failing handler writes nothing (the first part
\* fails when the socket is no longer open at that moment).
C15_FailureIsAnswered ==
    /\ (last.op = "onmessage" /\ Dispatched(last.raw)) =>
          IF Truthy(last.raw.id)
          THEN Thrown > 0 =>
                  \E i \in 1..Len(last.out) :
                      last.out[i] = ErrorReply(last.raw.type, last.raw.id,
                                               "handler threw")
          ELSE last.out = <<>>
    /\ last.op = "handlerRejected" =>
          IF Truthy(last.to.id)
          THEN last.out = <<ErrorReply(last.to.type, last.to.id,
                                       "handler error")>>
          ELSE last.out = <<>>

\* C15, amended: the error reply {type: originalType + ':REPLY', replyTo: id,
\* error} is written, once for every failing handler, when the envelope has
\* a non-empty id and the transport's socket is open at that moment; with
\* the socket not open, or without an id, nothing is written.
C15_AnsweredWhenOpen ==
    /\ (last.op = "onmessage" /\ Dispatched(last.raw)) =>
          IF Truthy(last.raw.id) /\ ~NotOpen
          THEN last.out = [i \in 1..Thrown |->
                              ErrorReply(last.raw.type, last.raw.id,
                                         "handler threw")]
          ELSE last.out = <<>>
    /\ last.op = "handlerRejected" =>
          IF Truthy(last.to.id) /\ ~NotOpen
          THEN last.out = <<ErrorReply(last.to.type, last.to.id,
                                       "handler error")>>
          ELSE last.out = <<>>

\* the promise of a handler rejected and the error reply was written
C15_Witness ==
    /\ last.op = "handlerRejected"
    /\ last.out = <<ErrorReply("JOB", 1, "handler error")>>

\* C16: an inbound envelope with a (non-empty) replyTo is only a reply: no
\* handler is called with it, nothing is written in answer and no handler
\* promise is left, also when no request is pending under its replyTo and
\* when it carries an id.
C16_ReplyNotDispatched ==
    [][(last'.op = "onmessage" /\ last'.raw.kind = "envelope"
        /\ Truthy(last'.raw.replyTo)) =>
          /\ last'.called = <<>> /\ last'.out = <<>> /\ ~last'.threw
          /\ UNCHANGED <<rejections, handlers>>]_vars

\* an envelope with an id and a replyTo that names no pending request came
\* in on an open socket while a handler was subscribed to its type
C16_Witness ==
    /\ last.op = "onmessage" /\ last.raw.kind = "envelope"
    /\ last.raw.id = 1 /\ last.raw.replyTo > idCounter
    /\ \E h \in HandlerIds : <<last.raw.type, h>> \in handlers
    /\ ws # 0 /\ readyState[ws] = "OPEN"

\* C17: a reply settles the pending request its replyTo names, and only
\* that one: it is resolved with the reply's payload, or, when the reply has
\* an error, rejected with that error's message, code and details; a reply
\* that names no pending request changes nothing.
C17_ReplyMatching ==
    [][(last'.op = "onmessage" /\ last'.raw.kind = "envelope"
        /\ Truthy(last'.raw.replyTo)) =>
          LET raw == last'.raw
              id == raw.replyTo
          IN  IF id \in pending
              THEN /\ pending' = pending \ {id}
                   /\ reqTimers' = reqTimers \ {id}
                   /\ IF raw.error # "undefined"
                      THEN /\ reqState'[id] = "rejected"
                           /\ reqValue'[id] =
                                 <<"rejected", raw.error \o ".message",
                                   raw.error \o ".code", raw.error \o ".details">>
                      ELSE /\ reqState'[id] = "resolved"
                           /\ reqValue'[id] = <<"resolved", raw.payload>>
                   /\ \A j \in ReqIds \ {id} :
                         /\ reqState'[j] = reqState[j]
                         /\ reqValue'[j] = reqValue[j]
                         /\ settles'[j] = settles[j]
              ELSE UNCHANGED <<reqVars, reqValue>>]_vars

\* one of two outstanding requests was rejected by an error reply and the
\* other is still pending
C17_Witness ==
    /\ last.op = "onmessage"
    /\ \E i, j \in ReqIds :
          /\ last.raw.replyTo = i
          /\ reqValue[i] = <<"rejected", "E1.message", "E1.code", "E1.details">>
          /\ reqState[i] = "rejected"
          /\ reqState[j] = "pending"

\* C18 as stated: for the three Method types the frame is {Method: type,
\* ...payload}, without the envelope's type and id; for every other type the
\* frame is the payload alone when the envelope has one (its payload is
\* neither undefined nor null), and the whole envelope when it has none (the
\* code writes the whole envelope also for the payloads 0, "" and false).
C18_EncoderShape ==
    (calc.fn = "encode" /\ calc.out # <<>>) =>
        LET env == calc.arg[1]
            type == env.obj.type.str
            payload == env.obj.payload
            frame == calc.out[1]
        IN  IF type \in MethodTypes
            THEN frame = Stringify(Obj(ObjectAssign([Method |-> Str(type)],
                                                    payload)))
            ELSE IF payload.kind \notin {"undefined", "null"}
                 THEN frame = Stringify(payload)
                 ELSE frame = Stringify(env)

\* The classifier's rules as the specification lists them, on the tolerantly
\* parsed frame.
MessageText(msg) ==
    IF msg.kind = "object" /\ "Message" \in DOMAIN msg.obj
       /\ msg.obj["Message"].kind = "string"
    THEN ToUpperCase(Trim(msg.obj["Message"].str)) ELSE ""
Field(msg, k) ==
    IF msg.kind = "object" /\ k \in DOMAIN msg.obj THEN msg.obj[k]
    ELSE [kind |-> "undefined"]
IsHashText(t) ==
    t \in {Hex64, "0X" \o Hex64}
CarriesTxField(msg) ==
    \E k \in {"TxHash", "txHash", "txid", "TxId", "TransactionId"} :
        Field(msg, k).kind = "string" /\ Field(msg, k).str # ""
StrictlyZero(v) == v.kind = "number" /\ v.num = 0
Rule(i, msg) ==
    LET t == MessageText(msg)
    IN  CASE i = 1 -> StrictlyZero(Field(msg, "ParticipantsEnrolled"))
          [] i = 2 -> GreaterThanZero(Field(msg, "ParticipantsEnrolled"))
          [] i = 3 -> t = "SUCCESS.ENROLL"
          [] i = 4 -> t \in {"SUCCESS.SIGNATURE_ADDED", "SUCCESS.SIGNATURE_ENDED"}
          [] i = 5 -> IsHashText(t) \/ CarriesTxField(msg)
          [] i = 6 -> /\ Field(msg, "SerialNumber").kind = "string"
                      /\ Field(msg, "SerialNumber").str # ""
          [] i = 7 -> /\ t # ""
                      /\ t \notin {"ERROR.WRONG_PIN", "SUCCESS.SIGNATURE_ADDED",
                                   "SUCCESS.SIGNATURE_ENDED",
                                   "SUCCESS.SIGNATURE_LOST", "SUCCESS.ENROLL"}
                      /\ ~IsHashText(t)
          [] i = 8 -> t = "ERROR.WRONG_PIN"
          [] OTHER -> TRUE
RuleTag ==
    <<"MANAGER_INFO", "ENROLLMENT_STATUS", "ENROLLMENT_RESULT", "SIGN_RESULT",
      "SIGN_RESULT", "SUCCESS.PIN_SERIAL", "SUCCESS.PIN_SERIAL",
      "ERROR.WRONG_PIN", "UNKNOWN">>
FirstRule(msg) ==
    CHOOSE i \in 1..9 : Rule(i, msg) /\ \A j \in 1..(i - 1) : ~Rule(j, msg)
Decoded == calc.fn = "decode" /\ calc.out # <<>>

\* C19: for every inbound frame the classifier returns the tag of the first
\* rule, in the order 1..9 of the specification, that the frame satisfies
C19_FirstRuleWins ==
    Decoded =>
        /\ ~calc.out[1].threw
        /\ calc.out[1].type = RuleTag[FirstRule(TolerantParse(calc.arg[1]))]

\* C20: a frame is classified ManagerInfo exactly when its
\* ParticipantsEnrolled field is strictly equal to the number 0; "0", the
\* empty string, false and an empty array are not
C20_StrictZero ==
    Decoded =>
        (calc.out[1].type = "MANAGER_INFO"
            <=> StrictlyZero(Field(TolerantParse(calc.arg[1]),
                                   "ParticipantsEnrolled")))

\* C21: the classifier is total: every text frame yields one of the seven
\* tags and never raises, and a frame that none of the rules 1-8 matches
\* yields UNKNOWN (the claim as stated; the code raises on the JSON text
\* null)
SevenTags ==
    {"MANAGER_INFO", "ENROLLMENT_STATUS", "ENROLLMENT_RESULT", "SIGN_RESULT",
     "SUCCESS.PIN_SERIAL", "ERROR.WRONG_PIN", "UNKNOWN"}
C21_ClassifierTotal ==
    Decoded =>
        /\ ~calc.out[1].threw
        /\ calc.out[1].type \in SevenTags
        /\ (\A i \in 1..8 : ~Rule(i, TolerantParse(calc.arg[1])))
              => calc.out[1].type = "UNKNOWN"

\* the trimmed Message text of a parsed frame, "" when it has none
TrimmedMessage(msg) ==
    IF Field(msg, "Message").kind = "string"
    THEN Trim(Field(msg, "Message").str) ELSE ""
\* a message was handled while a call of the operation was waiting
Arrived(op, w) ==
    /\ last'.op = "onmessage"
    /\ waitOp[w] = op
    /\ waitState[w] = "pending"
\* the frame is tagged PinSerial with the text as SerialNumber, and a
\* pending checkPIN resolves with it
SerialRead(text) ==
    /\ ~last'.env.threw
    /\ last'.env.type = "SUCCESS.PIN_SERIAL"
    /\ Field(last'.env.payload, "SerialNumber") = [kind |-> "string", str |-> text]
    /\ \A w \in WaitIds :
          Arrived("checkPIN", w) =>
              /\ waitState'[w] = "resolved"
              /\ waitValue'[w] =
                    <<[kind |-> "object",
                       obj |-> [type |-> [kind |-> "string",
                                          str |-> "SUCCESS.PIN_SERIAL"],
                                payload |-> last'.env.payload]]>>

\* C22, as stated: a frame that rules 1-6 do not match and whose trimmed
\* Message text is non-empty and none of ERROR.WRONG_PIN,
\* SUCCESS.SIGNATURE_ADDED, SUCCESS.SIGNATURE_ENDED, SUCCESS.ENROLL or a
\* 64-hex string is classified PinSerial with that text as SerialNumber,
\* and resolves a pending checkPIN as a serial read
C22_CatchAll ==
    [][last'.op = "onmessage" =>
          LET msg == TolerantParse(last'.raw)
              t == MessageText(msg)
          IN  (/\ \A i \in 1..6 : ~Rule(i, msg)
               /\ t # ""
               /\ t \notin {"ERROR.WRONG_PIN", "SUCCESS.SIGNATURE_ADDED",
                            "SUCCESS.SIGNATURE_ENDED", "SUCCESS.ENROLL"}
               /\ ~IsHashText(t))
              => SerialRead(TrimmedMessage(msg))]_vars

\* C22, amended: the same for a frame without ParticipantsEnrolled,
\* transaction-hash field and SerialNumber string, when the text does not
\* start with SUCCESS.SIGNATURE_ either
C22_CatchAllButMarkers ==
    [][last'.op = "onmessage" =>
          LET msg == TolerantParse(last'.raw)
              t == MessageText(msg)
          IN  (/\ msg.kind = "object"
               /\ "ParticipantsEnrolled" \notin DOMAIN msg.obj
               /\ ~CarriesTxField(msg)
               /\ Field(msg, "SerialNumber").kind # "string"
               /\ t # ""
               /\ t \notin {"ERROR.WRONG_PIN", "SUCCESS.SIGNATURE_ADDED",
                            "SUCCESS.SIGNATURE_ENDED", "SUCCESS.SIGNATURE_LOST",
                            "SUCCESS.ENROLL"}
               /\ ~IsHashText(t))
              => SerialRead(TrimmedMessage(msg))]_vars

\* a text frame that is not JSON arrived while checkPIN was waiting and
\* resolved it as a serial read
C22_Witness ==
    /\ last.op = "onmessage"
    /\ ~last.raw.json
    /\ last.env.type = "SUCCESS.PIN_SERIAL"
    /\ \E w \in WaitIds :
          /\ waitOp[w] = "checkPIN"
          /\ waitState[w] = "resolved"
          /\ Field(Field(waitValue[w][1], "payload"), "SerialNumber")
                = [kind |-> "string", str |-> "PIN OK"]

\* the type a wait's result names, "" when the result is a bare payload
ResultType(v) ==
    IF v.kind = "object" /\ DOMAIN v.obj = {"type", "payload"}
    THEN v.obj["type"].str ELSE ""

\* C23: when a frame classified WrongPin arrives while checkPIN is pending,
\* checkPIN resolves (it does not reject) with a result whose type is
\* ERROR.WRONG_PIN and whose payload is the frame's, so it cannot be
\* mistaken for the PinSerial outcome
C23_WrongPinResolves ==
    [][\A w \in WaitIds :
          (/\ Arrived("checkPIN", w)
           /\ ~last'.env.threw
           /\ last'.env.type = "ERROR.WRONG_PIN")
          => /\ waitState'[w] = "resolved"
             /\ waitValue'[w] # <<>>
             /\ ResultType(waitValue'[w][1]) = "ERROR.WRONG_PIN"
             /\ waitValue'[w][1].obj["payload"] = last'.env.payload
             /\ w \notin waitTimers'
             /\ \A h \in handlers' : h[2] # w]_vars

\* checkPIN was resolved by a wrong-PIN frame
C23_Witness ==
    /\ last.op = "onmessage"
    /\ ~last.env.threw
    /\ last.env.type = "ERROR.WRONG_PIN"
    /\ \E w \in WaitIds :
          /\ waitOp[w] = "checkPIN"
          /\ waitState[w] = "resolved"
          /\ ResultType(waitValue[w][1]) = "ERROR.WRONG_PIN"

\* the table of C24: the outbound type and the deadline of each operation
ClaimedOutType ==
    [requestManagerInfo |-> "Info_Enrollment", enroll |-> "Enrollment",
     sign |-> "Sign", checkPIN |-> "CheckPIN", sendStatus |-> "Info_Enrollment"]
ClaimedDeadline ==
    [requestManagerInfo |-> 60000, enroll |-> 200000, sign |-> 300000,
     checkPIN |-> 300000, sendStatus |-> 10000]
ClaimedEvent ==
    [requestManagerInfo |-> "MANAGER_INFO", enroll |-> "ENROLLMENT_RESULT",
     sign |-> "SIGN_RESULT", checkPIN |-> "SUCCESS.PIN_SERIAL",
     sendStatus |-> "ENROLLMENT_STATUS"]

Subscriptions(table, w) == {h \in table : h[2] = w}
WaitSettled(state) == state \in {"resolved", "timeout"}

\* C25: a wait of _sendAndWait settles exactly once: once it is settled,
\* by an awaited event or by the timeout, none of its subscriptions and no
\* timer of it remains and its outcome never changes; it resolves with
\* {type, payload} of the event when more than one type was awaited and
\* with the bare payload when one was
C25_SettlesOnce ==
    [][\A w \in WaitIds :
          /\ WaitSettled(waitState'[w]) =>
                /\ Subscriptions(handlers', w) = {}
                /\ w \notin waitTimers'
          /\ WaitSettled(waitState[w]) =>
                /\ waitState'[w] = waitState[w]
                /\ waitValue'[w] = waitValue[w]
          /\ (/\ waitOp[w] \in WorkflowOps
              /\ waitState[w] = "pending"
              /\ waitState'[w] = "resolved") =>
                IF Cardinality(Subscriptions(handlers, w)) > 1
                THEN waitValue'[w] =
                        <<[kind |-> "object",
                           obj |-> [type |-> [kind |-> "string",
                                              str |-> last'.env.type],
                                    payload |-> last'.env.payload]]>>
                ELSE waitValue'[w] = <<last'.env.payload>>
          /\ waitState'[w] = "timeout" => waitValue'[w] = <<>>]_vars

\* sign, which awaits three types, was resolved by a SignResult frame
C25_Witness ==
    /\ last.op = "onmessage"
    /\ ~last.env.threw
    /\ \E w \in WaitIds :
          /\ waitOp[w] = "sign"
          /\ waitState[w] = "resolved"
          /\ ResultType(waitValue[w][1]) = "SIGN_RESULT"
          /\ Subscriptions(handlers, w) = {}

\* the status satisfies the predicate the call was given (one that raises
\* accepts nothing)
Qualifies(pred, payload) ==
    \/ pred = "always"
    \/ /\ pred = "atLeast3"
       /\ payload.obj["ParticipantsEnrolled"].num >= 3

\* C26: waitFor resolves once, with the first EnrollmentStatus that
\* satisfies the predicate or with any EnrollmentResult, and rejects on
\* timeout; a status that does not satisfy the predicate leaves the call
\* waiting; once settled, its two subscriptions and its timer are gone and
\* no later frame changes its outcome
C26_WaitForOnce ==
    [][\A w \in WaitIds :
          /\ (Arrived("waitFor", w) /\ ~last'.env.threw) =>
                LET env == last'.env
                    hit == \/ env.type = "ENROLLMENT_RESULT"
                           \/ /\ env.type = "ENROLLMENT_STATUS"
                              /\ Qualifies(waitPredicate[w], env.payload)
                IN  IF hit
                    THEN /\ waitState'[w] = "resolved"
                         /\ waitValue'[w] = <<env.payload>>
                    ELSE /\ waitState'[w] = "pending"
                         /\ w \in waitTimers'
                         /\ Subscriptions(handlers', w) =
                               {<<"ENROLLMENT_STATUS", w>>, <<"ENROLLMENT_RESULT", w>>}
          /\ (waitOp[w] = "waitFor" /\ waitState[w] = "pending"
                /\ last'.op = "waitTimeout" /\ last'.arg = w)
                => waitState'[w] = "timeout"
          /\ (waitOp'[w] = "waitFor" /\ WaitSettled(waitState'[w])) =>
                /\ Subscriptions(handlers', w) = {}
                /\ w \notin waitTimers'
          /\ (waitOp[w] = "waitFor" /\ WaitSettled(waitState[w])) =>
                /\ waitState'[w] = waitState[w]
                /\ waitValue'[w] = waitValue[w]]_vars

\* a second qualifying status arrived after the one that resolved waitFor
C26_Witness ==
    /\ last.op = "onmessage"
    /\ ~last.env.threw
    /\ last.env.type = "ENROLLMENT_STATUS"
    /\ \E w \in WaitIds :
          /\ waitOp[w] = "waitFor"
          /\ waitState[w] = "resolved"
          /\ Qualifies(waitPredicate[w], last.env.payload)
          /\ waitValue[w] # <<last.env.payload>>
          /\ Field(waitValue[w][1], "ParticipantsEnrolled").kind = "number"

\* C27: every elapsed interval of the polling that is active calls
\* sendStatus exactly once when the connection reports connected and not
\* at all when it does not; sendStatus is called by nothing else; an
\* interval elapses only for the polling that is active, so that after
\* stopStatusPolling (or the cancel function) none elapses any more
C27_PollsWhileConnected ==
    [][/\ last'.op = "pollTick" =>
             /\ statusTimer # 0 /\ last'.arg = statusTimer
             /\ last'.called <=> connected
             /\ IF last'.called /\ ~last'.threw
                THEN /\ last'.out = <<[sock |-> ws, type |-> "Info_Enrollment",
                                       id |-> 0]>>
                     /\ Cardinality({w \in WaitIds : waitOp'[w] # waitOp[w]}) = 1
                     /\ \A w \in WaitIds :
                           waitOp'[w] # waitOp[w] => waitOp'[w] = "sendStatus"
                ELSE last'.out = <<>> /\ waitOp' = waitOp
       /\ waitOp' # waitOp => last'.op = "pollTick"
       /\ pollTimers' = IF statusTimer' = 0 THEN {} ELSE {statusTimer'}
       /\ last'.op = "stopStatusPolling" => statusTimer' = 0]_vars

\* polling was stopped after it had called sendStatus, and no interval is
\* armed
C27_Witness ==
    /\ last.op = "stopStatusPolling"
    /\ last.arg # 0
    /\ pollTimers = {}
    /\ \E w \in WaitIds : waitOp[w] = "sendStatus"

\* the calls that wait for an answer while the connection is lost
LostRequests == {i \in ReqIds : reqState[i] = "pending" /\ ~connected}
LostWaits == {w \in WaitIds : waitState[w] = "pending" /\ ~connected}

\* C28: a call that is waiting while its connection is lost does not end
\* with the outcome of a plain timeout (nor, for request(), with that of an
\* error reply): the loss is an outcome of its own (the claim as stated;
\* a workflow call is left waiting by the close and ends with the plain
\* timeout error)
C28_LossIsDistinct ==
    [][/\ \A i \in LostRequests : reqState'[i] \notin {"timeout", "rejected"}
       /\ \A w \in LostWaits : waitState'[w] # "timeout"]_vars

\* the half of C28 about request(): the close handler ends every pending
\* request with the outcome "closed", so that none is left to time out
C28_RequestHalf ==
    [][/\ \A i \in LostRequests : reqState'[i] \notin {"timeout", "rejected"}
       /\ last'.op = "onclose" =>
             \A i \in ReqIds : reqState[i] = "pending" => reqState'[i] = "closed"]_vars

\* C29: when a request() or a workflow call times out, that call alone is
\* rejected: the sockets, the connection state, the reconnect timers and
\* the attempt counter are as before, and so is every other pending
\* request (entry, timer, future) and every other call's subscriptions,
\* timer and future
C29_TimeoutIsLocal ==
    [][/\ last'.op = "requestTimeout" =>
             LET id == last'.arg
             IN  /\ reqState[id] = "pending" /\ reqState'[id] = "timeout"
                 /\ pending' = pending \ {id}
                 /\ reqTimers' = reqTimers \ {id}
                 /\ \A j \in ReqIds \ {id} : reqState'[j] = reqState[j]
                 /\ UNCHANGED <<readyState, connectPromise, ws, connected,
                                reconnectAttempts, reconnectTimers,
                                autoReconnect, handlers, waitState,
                                waitTimers, waitValue>>
       /\ last'.op = "waitTimeout" =>
             LET w == last'.arg
             IN  /\ waitState[w] = "pending" /\ waitState'[w] = "timeout"
                 /\ waitTimers' = waitTimers \ {w}
                 /\ handlers' = handlers \ Subscriptions(handlers, w)
                 /\ \A v \in WaitIds \ {w} :
                       waitState'[v] = waitState[v] /\ waitValue'[v] = waitValue[v]
                 /\ UNCHANGED <<readyState, connectPromise, ws, connected,
                                reconnectAttempts, reconnectTimers,
                                autoReconnect, pending, reqTimers, reqState>>]_vars

\* a request timed out on an open connection while another request and a
\* workflow call were waiting, and they still are
C29_Witness ==
    /\ last.op = "requestTimeout"
    /\ ws # 0 /\ readyState[ws] = "OPEN" /\ connected
    /\ \E j \in pending : j # last.arg /\ reqState[j] = "pending" /\ j \in reqTimers
    /\ \E w \in waitTimers : waitState[w] = "pending"

\* a database-lock or timeout error
LockOrTimeout(err) ==
    \/ err.name = "SequelizeTimeoutError"
    \/ err.message \in {"SQLITE_BUSY: database is locked", "database is locked"}
\* the wait before the retry that follows the failed attempt k
RetryWait(k) == IF 100 * 2^(k - 1) < 2000 THEN 100 * 2^(k - 1) ELSE 2000
\* what the handler of POST /api/addresses has done so far agrees with C30
AddressesAsClaimed ==
    LET n == Len(post.errors)
        locks == {i \in 1..n : LockOrTimeout(post.errors[i])}
    IN  /\ n <= 5 /\ post.attempt = n
        /\ Len(post.responses) <= 1
        /\ post.pc = "done" <=> Len(post.responses) = 1
        /\ \A i \in 1..n : i \notin locks => i = n /\ post.responses = <<500>>
        /\ Len(post.delays) = Cardinality(locks \ {5})
        /\ \A i \in 1..Len(post.delays) : post.delays[i] = RetryWait(i)
        /\ post.responses = <<503>> <=> locks = 1..5
        /\ post.responses = <<500>> <=> (n > 0 /\ n \notin locks)
        /\ post.responses = <<400>> <=> (post.pc # "idle" /\ post.body.address = "")
        /\ post.responses = <<400>> => post.dbCalls = 0 /\ n = 0
        /\ post.responses # <<>> =>
              post.responses[1] \in {200, 201, 400, 500, 503}

\* C30: POST /api/addresses ends with exactly one response, after at most
\* 5 attempts; it retries only after a lock or timeout error, waiting
\* min(100 * 2^(attempt-1), 2000) ms before the retry; it answers 503 when
\* the 5th attempt hits a lock too, 500 without a retry on any other
\* error, and 400 without a database call when the address is missing
C30_AddressesTerminates ==
    /\ []AddressesAsClaimed
    /\ (post.pc # "idle") ~> (post.pc = "done")

\* five attempts hit a lock: four retries with growing waits, then 503
C30_Witness ==
    /\ post.pc = "done"
    /\ post.responses = <<503>>
    /\ post.delays = <<100, 200, 400, 800>>
    /\ post.attempt = 5

\* a workflow call or waitFor that started its wait
Started == last.op \in WorkflowOps \cup {"waitFor"} /\ ~last.threw

\* the deadlines of the deployment guide's inventory, in ms
GuideDeadline(op) ==
    CASE op = "requestManagerInfo" -> 60 * 1000
      [] op = "enroll" -> 200 * 1000
      [] op = "sign" -> 120 * 1000
      [] op = "sendStatus" -> 10 * 1000
      [] op = "checkPIN" -> 10 * 1000
      [] op = "waitFor" -> 120 * 1000

\* the deadlines with sign, checkPIN and waitFor at 300 s
RaisedDeadline(op) ==
    IF op \in {"sign", "checkPIN", "waitFor"} THEN 300 * 1000
    ELSE GuideDeadline(op)

C32_EveryCallSettles ==
    /\ [](/\ \A i \in ReqIds : reqState[i] = "pending" => i \in reqTimers
          /\ \A w \in WaitIds : waitState[w] = "pending" => w \in waitTimers)
    /\ \A i \in ReqIds : (reqState[i] = "pending") ~> (reqState[i] \in Settled)
    /\ \A w \in WaitIds :
          (waitState[w] = "pending") ~> (waitState[w] \in {"resolved", "timeout"})

\* a request and a workflow call were both ended by their timers
C32_Witness ==
    /\ \E i \in ReqIds : reqState[i] = "timeout" /\ i \notin reqTimers
    /\ \E w \in WaitIds : waitState[w] = "timeout" /\ w \notin waitTimers

\* a frame without ParticipantsEnrolled whose Message text is
\* ERROR.WRONG_PIN was handled
WrongPinFrame(raw) ==
    LET msg == TolerantParse(raw)
    IN  /\ msg.kind = "object"
        /\ "ParticipantsEnrolled" \notin DOMAIN msg.obj
        /\ MessageText(msg) = "ERROR.WRONG_PIN"
\* the wait resolved with {type, payload}
ResolvedAs(w, type, payload) ==
    /\ waitState'[w] = "resolved"
    /\ waitValue'[w] =
          <<[kind |-> "object",
             obj |-> [type |-> [kind |-> "string", str |-> type],
                      payload |-> payload]]>>

\* C33 as stated: a frame whose Message text is ERROR.WRONG_PIN is never
\* classified PinSerial or SignResult, whatever other fields it carries,
\* and a pending checkPIN never resolves as a serial read on it
C33_WrongPinNeverSerial ==
    [][last'.op = "onmessage" /\ WrongPinFrame(last'.raw) =>
          /\ last'.env.type \notin {"SUCCESS.PIN_SERIAL", "SIGN_RESULT"}
          /\ \A w \in WaitIds :
                Arrived("checkPIN", w) =>
                    ~ResolvedAs(w, "SUCCESS.PIN_SERIAL", last'.env.payload)]_vars

\* C33, amended: such a frame is classified by the first rule it matches:
\* SignResult when it carries a transaction-hash field, else PinSerial
\* when it carries a non-empty SerialNumber string, else WrongPin; its
\* payload is the frame itself; a pending checkPIN stays pending on
\* SignResult and resolves with the tag otherwise
C33_WrongPinByPriority ==
    [][last'.op = "onmessage" /\ WrongPinFrame(last'.raw) =>
          LET msg == TolerantParse(last'.raw)
              sn == Field(msg, "SerialNumber")
              tag == IF CarriesTxField(msg) THEN "SIGN_RESULT"
                     ELSE IF sn.kind = "string" /\ sn.str # ""
                     THEN "SUCCESS.PIN_SERIAL"
                     ELSE "ERROR.WRONG_PIN"
          IN  /\ ~last'.env.threw
              /\ last'.env.type = tag
              /\ last'.env.payload = msg
              /\ \A w \in WaitIds :
                    Arrived("checkPIN", w) =>
                        IF tag = "SIGN_RESULT"
                        THEN waitState'[w] = "pending" /\ w \in waitTimers'
                        ELSE ResolvedAs(w, tag, msg)]_vars

\* a frame with the Message ERROR.WRONG_PIN and a SerialNumber resolved a
\* pending checkPIN as a serial read
C33_Witness ==
    /\ last.op = "onmessage"
    /\ WrongPinFrame(last.raw)
    /\ last.env.type = "SUCCESS.PIN_SERIAL"
    /\ \E w \in WaitIds :
          /\ waitOp[w] = "checkPIN"
          /\ waitState[w] = "resolved"
          /\ ResultType(waitValue[w][1]) = "SUCCESS.PIN_SERIAL"

\* C34: for an inbound envelope that carries an id at most one reply
\* envelope is written back, however many handlers are subscribed to its
\* type and whatever they do (the claim as stated; each handler that throws
\* is answered with a reply of its own)
C34_AtMostOneReply ==
    last.op = "onmessage" /\ last.raw.kind = "envelope" /\ Truthy(last.raw.id)
        => Len(last.out) <= 1

\* C35: the transport has at most one live socket, and isConnected is true
\* exactly when its current socket is open (a socket that is closing, its
\* close event not yet delivered, counts as open here), whatever sequence
\* of connect(), close() and socket events led to the state (the claim as
\* stated; connect() does not close the socket it replaces)
C35_OneLiveSocket ==
    /\ Cardinality({s \in SockIds : Live(s)}) <= 1
    /\ connected => ws # 0 /\ readyState[ws] \in {"OPEN", "CLOSING"}
    /\ ws # 0 /\ readyState[ws] = "OPEN" => connected

\* the event types a call awaits
Awaited(op) ==
    CASE op = "requestManagerInfo" -> {"MANAGER_INFO"}
      [] op = "enroll" -> {"ENROLLMENT_RESULT"}
      [] op = "sign" -> {"SIGN_RESULT", "SUCCESS.SIGNATURE_ADDED",
                         "SUCCESS.SIGNATURE_ENDED"}
      [] op = "checkPIN" -> {"SUCCESS.PIN_SERIAL", "ERROR.WRONG_PIN"}
      [] op = "sendStatus" -> {"ENROLLMENT_STATUS"}
      [] op = "waitFor" -> {"ENROLLMENT_STATUS", "ENROLLMENT_RESULT"}
      [] OTHER -> {}
\* the call is pending and a frame of the type settles it: it awaits the
\* type, and for waitFor a status is one its predicate accepts (the statuses
\* of SpecOverlap carry no fields)
AwaitsType(w, type) ==
    /\ waitState[w] = "pending"
    /\ type \in Awaited(waitOp[w])
    /\ (waitOp[w] = "waitFor" /\ type = "ENROLLMENT_STATUS")
          => waitPredicate[w] = "always"

\* C36: workflow waits are correlated by event type only: a frame of type T
\* resolves every call that awaits T at that moment and removes its timer
\* and subscriptions, and leaves every other call, its timer and its
\* subscriptions as they were
C36_ResolvedByType ==
    [][last'.op = "onevent" =>
          \A w \in WaitIds :
              IF AwaitsType(w, last'.type)
              THEN /\ waitState'[w] = "resolved"
                   /\ w \notin waitTimers'
                   /\ Subscriptions(handlers', w) = {}
              ELSE /\ waitState'[w] = waitState[w]
                   /\ waitValue'[w] = waitValue[w]
                   /\ w \in waitTimers' <=> w \in waitTimers
                   /\ Subscriptions(handlers', w) = Subscriptions(handlers, w)]_vars

\* one EnrollmentStatus frame resolved a sendStatus call and another call
\* (a second sendStatus or a waitFor) in the same step
C36_Witness ==
    /\ last.op = "onevent"
    /\ last.type = "ENROLLMENT_STATUS"
    /\ \E v, w \in last.resolved :
          /\ v # w
          /\ waitOp[v] = "sendStatus"
          /\ waitOp[w] \in {"sendStatus", "waitFor"}
          /\ waitState[v] = "resolved" /\ waitState[w] = "resolved"

\* C37: type subscriptions and pending workflow waits survive a
\* disconnect/reconnect cycle: a step that changes the connection leaves the
\* subscription table, the pending calls and their timers as they were, and
\* a frame of a type a pending call awaits resolves it on whichever socket
\* it arrives, the re-established one included
C37_WaitsSurviveReconnect ==
    /\ [][(readyState' # readyState \/ ws' # ws \/ connected' # connected)
            => UNCHANGED <<handlers, waitOp, waitState, waitTimers, waitValue>>]_vars
    /\ [][last'.op = "onevent" =>
            \A w \in WaitIds :
                AwaitsType(w, last'.type) =>
                    /\ waitState'[w] = "resolved"
                    /\ last'.resolved # {}]_vars
\* a call made on the first connection is resolved by a frame that arrives
\* on the second, the first having closed
C37_Witness ==
    /\ last.op = "onevent"
    /\ last.arg = 2
    /\ ws = 2
    /\ readyState[1] = "CLOSED"
    /\ \E w \in last.resolved :
          /\ waitState[w] = "resolved"
          /\ last.type \in Awaited(waitOp[w])

\* the two signature-success markers sign() subscribes to besides SIGN_RESULT
SignatureMarkers == {"SUCCESS.SIGNATURE_ADDED", "SUCCESS.SIGNATURE_ENDED"}

\* C38: the decoder of the adapter emits only the seven types; so no frame
\* is ever delivered under SUCCESS.SIGNATURE_ADDED or
\* SUCCESS.SIGNATURE_ENDED, the subscriptions of sign() to them never fire,
\* and every resolved sign() has a result whose type field is SIGN_RESULT
C38_SignResultOnly ==
    /\ [][last'.op = "onmessage" =>
            /\ last'.env.threw \/ last'.env.type \in SevenTags
            /\ last'.env.threw \/ last'.env.type \notin SignatureMarkers
            /\ \A w \in WaitIds :
                  (Arrived("sign", w) /\ waitState'[w] = "resolved")
                      => /\ last'.env.type = "SIGN_RESULT"
                         /\ ResultType(waitValue'[w][1]) = "SIGN_RESULT"]_vars
    /\ [](\A w \in WaitIds :
            (waitOp[w] = "sign" /\ waitState[w] = "resolved")
                => ResultType(waitValue[w][1]) = "SIGN_RESULT")
\* the frame "SUCCESS.SIGNATURE_ADDED" arrived while sign() was pending with
\* its three subscriptions; it was delivered as SIGN_RESULT and sign()
\* resolved with that type
C38_Witness ==
    /\ last.op = "onmessage"
    /\ last.raw = JsonFrame(Str("SUCCESS.SIGNATURE_ADDED"))
    /\ last.env.type = "SIGN_RESULT"
    /\ \E w \in WaitIds :
          /\ waitOp[w] = "sign"
          /\ waitState[w] = "resolved"
          /\ ResultType(waitValue[w][1]) = "SIGN_RESULT"

\* C39: at most one polling timer is active whatever startStatusPolling and
\* stopStatusPolling calls were made, and it is the one the client holds:
\* startStatusPolling leaves its new timer alone, having cleared the one
\* that ran; stopStatusPolling (which is all that any cancel function calls)
\* clears the current timer and changes nothing when none is running
C39_OnePollingTimer ==
    /\ [](/\ Cardinality(pollTimers) <= 1
          /\ \A t \in pollTimers : t = statusTimer)
    /\ [][/\ last'.op = "startStatusPolling" =>
                /\ last'.arg \notin pollTimers
                /\ pollTimers' = {last'.arg}
                /\ statusTimer' = last'.arg
          /\ last'.op = "stopStatusPolling" =>
                /\ pollTimers' = {}
                /\ statusTimer' = 0
                /\ statusTimer = 0 => UNCHANGED pollVars]_vars
\* startStatusPolling was called while the first polling ran: the second
\* timer is the only one
C39_Witness ==
    /\ last.op = "startStatusPolling"
    /\ last.replaced = 1
    /\ last.arg = 2
    /\ pollTimers = {2}

\* C40: a workflow operation invoked while the socket is not open fails
\* without side effects: it raises, writes no frame, registers no
\* subscription and starts no timer, so that the subscription table, the
\* calls and every timer are as they were before the call
C40_NotOpenNoEffect ==
    [][(last'.op \in WorkflowOps /\ NotOpen) =>
          /\ last'.threw
          /\ last'.out = <<>>
          /\ UNCHANGED <<handlers, waitOp, waitState, waitTimers, waitValue,
                         reqTimers, intervals, reconnectTimers, pollTimers,
                         pending, readyState, ws>>]_vars
\* the connection was lost while a call was waiting; the next operation
\* raised, and the table holds the subscriptions of the first call only
C40_Witness ==
    /\ last.op \in WorkflowOps
    /\ last.threw
    /\ NotOpen
    /\ ws # 0
    /\ \E w \in WaitIds :
          /\ waitState[w] = "pending"
          /\ handlers = {<<t, w>> : t \in Awaited(waitOp[w])}
          /\ waitTimers = {w}

====
